---- MODULE Spec2Model ----
(***************************************************************************)
(* sp-money: Money values held as exact bigint counts of minor units.      *)
(*                                                                         *)
(* The library computes on JavaScript bigints (money.ts:139) that exceed   *)
(* the integers of the model checker, so a bigint is modelled as a sign    *)
(* and a little-endian sequence of limbs in base LimbBase, and the bigint  *)
(* operators +, -, *, /, % and the comparisons are the Big... operators    *)
(* below (/ truncates toward zero, % takes the sign of the dividend, as    *)
(* for JavaScript bigints).                                                *)
(***************************************************************************)
EXTENDS Integers, Sequences, FiniteSets, TLC

----------------------------------------------------------------------------
(* bigint *)
(* The operators are written without deep recursion (carries by           *)
(* look-ahead, products by columns, division by a power of ten by         *)
(* shifting) so that the model checker evaluates them on a small stack.   *)

LimbBase == 10000

LimbDigits == 4

Pow10Table ==
  <<1, 10, 100, 1000, 10000, 100000, 1000000, 10000000, 100000000, 1000000000>>

\* 10^k for 0 <= k <= 9
Pow10Small(k) == Pow10Table[k + 1]

MaxOf(S) == CHOOSE x \in S : \A y \in S : y <= x

Limb(m, i) == IF i >= 1 /\ i <= Len(m) THEN m[i] ELSE 0

\* m without its high zero limbs
Trim(m) ==
  LET nz == {i \in DOMAIN m : m[i] # 0}
  IN  IF nz = {} THEN <<>> ELSE SubSeq(m, 1, MaxOf(nz))

\* -1, 0 or 1 for two trimmed magnitudes
MagCmp(a, b) ==
  IF Len(a) < Len(b) THEN -1
  ELSE IF Len(a) > Len(b) THEN 1
  ELSE LET diff == {i \in DOMAIN a : a[i] # b[i]}
       IN  IF diff = {} THEN 0
           ELSE IF a[MaxOf(diff)] < b[MaxOf(diff)] THEN -1 ELSE 1

\* a + b: limb i receives a carry when a lower limb overflows and every limb
\* between is full
MagAdd(a, b) ==
  LET n == IF Len(a) > Len(b) THEN Len(a) ELSE Len(b)
      s == [i \in 1..(n + 1) |-> Limb(a, i) + Limb(b, i)]
      carry(i) == \E j \in 1..(i - 1) :
                     /\ s[j] >= LimbBase
                     /\ \A k \in (j + 1)..(i - 1) : s[k] = LimbBase - 1
  IN  Trim([i \in 1..(n + 1) |->
              (s[i] + (IF carry(i) THEN 1 ELSE 0)) % LimbBase])

\* a - b for magnitudes with a >= b
MagSub(a, b) ==
  LET d == [i \in 1..Len(a) |-> a[i] - Limb(b, i)]
      borrow(i) == \E j \in 1..(i - 1) :
                      /\ d[j] < 0
                      /\ \A k \in (j + 1)..(i - 1) : d[k] = 0
  IN  Trim([i \in 1..Len(a) |->
              (d[i] - (IF borrow(i) THEN 1 ELSE 0) + LimbBase) % LimbBase])

\* the sum of a[i] * b[k + 1 - i] for i in lo..hi
RECURSIVE ColumnSum(_, _, _, _, _)
ColumnSum(a, b, k, lo, hi) ==
  IF lo > hi THEN 0
  ELSE IF lo = hi THEN a[lo] * b[k + 1 - lo]
  ELSE LET mid == (lo + hi) \div 2
       IN  ColumnSum(a, b, k, lo, mid) + ColumnSum(a, b, k, mid + 1, hi)

\* a * b by columns; a column sum of at most 21 products stays below 2^31
MagMul(a, b) ==
  IF a = <<>> \/ b = <<>> THEN <<>>
  ELSE LET n   == Len(a) + Len(b) - 1
           col == [k \in 1..n |->
                     ColumnSum(a, b, k,
                               IF k + 1 - Len(b) > 1 THEN k + 1 - Len(b) ELSE 1,
                               IF k < Len(a) THEN k ELSE Len(a))]
           lo  == [k \in 1..n |-> col[k] % LimbBase]
           mid == [k \in 1..n |-> (col[k] \div LimbBase) % LimbBase]
           hi  == [k \in 1..n |-> col[k] \div (LimbBase * LimbBase)]
       IN  MagAdd(MagAdd(lo, <<0>> \o mid), <<0, 0>> \o hi)

\* a * k for one limb k
MagMulLimb(a, k) == MagMul(a, Trim(<<k>>))

\* b is the magnitude of a power of ten
MagIsPow10(b) ==
  /\ b # <<>>
  /\ b[Len(b)] \in {1, 10, 100, 1000}
  /\ \A i \in 1..(Len(b) - 1) : b[i] = 0

\* the exponent e of the power of ten b = 10^e
MagLog10(b) ==
  LimbDigits * (Len(b) - 1)
  + (CHOOSE r \in 0..(LimbDigits - 1) : Pow10Small(r) = b[Len(b)])

\* a divided by 10^e, by shifting: quotient and remainder
MagDivPow10(a, e) ==
  LET q  == e \div LimbDigits
      r  == e % LimbDigits
      lowP  == Pow10Small(r)
      highP == Pow10Small(LimbDigits - r)
  IN  [q |-> Trim([i \in 1..(Len(a) - q) |->
                     (Limb(a, i + q) \div lowP)
                     + (Limb(a, i + q + 1) % lowP) * highP]),
       r |-> Trim([i \in 1..(IF q + 1 < Len(a) THEN q + 1 ELSE Len(a)) |->
                     IF i <= q THEN a[i] ELSE a[i] % lowP])]

\* LimbBase^k mod d
RECURSIVE BasePowMod(_, _)
BasePowMod(k, d) ==
  IF k = 0 THEN 1 % d
  ELSE IF k % 2 = 0
  THEN (BasePowMod(k \div 2, d) * BasePowMod(k \div 2, d)) % d
  ELSE (BasePowMod(k - 1, d) * (LimbBase % d)) % d

\* the value of the limbs a[lo..hi] modulo d
RECURSIVE RemRange(_, _, _, _)
RemRange(a, d, lo, hi) ==
  IF lo > hi THEN 0
  ELSE IF lo = hi THEN a[lo] % d
  ELSE LET mid == (lo + hi) \div 2
       IN  (RemRange(a, d, mid + 1, hi) * BasePowMod(mid - lo + 1, d)
            + RemRange(a, d, lo, mid)) % d

ShortDivisorLimit == 46340

\* a divided by a small d (0 < d < ShortDivisorLimit, so that d * d < 2^31)
MagDivShort(a, d) ==
  [q |-> Trim([i \in 1..Len(a) |->
                 (RemRange(a, d, i + 1, Len(a)) * LimbBase + a[i]) \div d]),
   r |-> Trim(<<RemRange(a, d, 1, Len(a))>>)]

\* the greatest limb d in lo..hi with b * d <= cur (b * lo <= cur is given)
RECURSIVE QuotLimb(_, _, _, _)
QuotLimb(cur, b, lo, hi) ==
  IF lo = hi THEN lo
  ELSE LET mid == (lo + hi + 1) \div 2
       IN  IF MagCmp(MagMulLimb(b, mid), cur) <= 0
           THEN QuotLimb(cur, b, mid, hi)
           ELSE QuotLimb(cur, b, lo, mid - 1)

\* one step of the long division, given the result up for the higher limbs,
\* the running remainder cur and the quotient limb d
MagDivStep(up, cur, b, d) ==
  [q |-> <<d>> \o up.q,
   r |-> IF d = 0 THEN cur ELSE MagSub(cur, MagMulLimb(b, d))]

MagDivLimb(up, cur, b) ==
  MagDivStep(up, cur, b,
             IF MagCmp(cur, b) < 0 THEN 0 ELSE QuotLimb(cur, b, 1, LimbBase - 1))

MagDivUp(a, b, i, up) == MagDivLimb(up, Trim(<<a[i]>> \o up.r), b)

\* long division of the limbs a[i..] by b (b # <<>>): quotient and remainder
RECURSIVE MagDivFrom(_, _, _)
MagDivFrom(a, b, i) ==
  IF i > Len(a) THEN [q |-> <<>>, r |-> <<>>]
  ELSE MagDivUp(a, b, i, MagDivFrom(a, b, i + 1))

\* quotient and remainder of two magnitudes, b # <<>>
MagDivMod(a, b) ==
  IF MagCmp(a, b) < 0 THEN [q |-> <<>>, r |-> a]
  ELSE IF MagIsPow10(b) THEN MagDivPow10(a, MagLog10(b))
  ELSE IF Len(b) = 1 \/ (Len(b) = 2 /\ b[2] * LimbBase + b[1] < ShortDivisorLimit)
  THEN MagDivShort(a, Limb(b, 2) * LimbBase + b[1])
  ELSE LET qr == MagDivFrom(a, b, 1) IN [q |-> Trim(qr.q), r |-> qr.r]

Big(neg, mag) == [neg |-> neg /\ mag # <<>>, mag |-> mag]

BigZero == Big(FALSE, <<>>)

\* the limbs of a natural number n < 2^31
NatLimbs(n) ==
  Trim(<<n % LimbBase, (n \div LimbBase) % LimbBase,
         n \div (LimbBase * LimbBase)>>)

\* BigInt(n) / the literal n for a small integer n
BigOf(n) == IF n < 0 THEN Big(TRUE, NatLimbs(-n)) ELSE Big(FALSE, NatLimbs(n))

BigNeg(x) == Big(~x.neg, x.mag)

BigAbs(x) == Big(FALSE, x.mag)

BigIsZero(x) == x.mag = <<>>

BigIsNeg(x) == x.neg

BigAdd(x, y) ==
  IF x.neg = y.neg THEN Big(x.neg, MagAdd(x.mag, y.mag))
  ELSE IF MagCmp(x.mag, y.mag) >= 0 THEN Big(x.neg, MagSub(x.mag, y.mag))
  ELSE Big(y.neg, MagSub(y.mag, x.mag))

BigSub(x, y) == BigAdd(x, BigNeg(y))

BigMul(x, y) == Big(x.neg # y.neg, MagMul(x.mag, y.mag))

\* x / y, truncated toward zero (y # 0)
BigDiv(x, y) == Big(x.neg # y.neg, MagDivMod(x.mag, y.mag).q)

\* x % y, with the sign of x (y # 0)
BigRem(x, y) == Big(x.neg, MagDivMod(x.mag, y.mag).r)

BigCmp(x, y) ==
  IF x.neg /\ ~y.neg THEN -1
  ELSE IF ~x.neg /\ y.neg THEN 1
  ELSE IF x.neg THEN MagCmp(y.mag, x.mag)
  ELSE MagCmp(x.mag, y.mag)

BigLt(x, y) == BigCmp(x, y) < 0

BigGt(x, y) == BigCmp(x, y) > 0

BigLe(x, y) == BigCmp(x, y) <= 0

BigGe(x, y) == BigCmp(x, y) >= 0

\* 10n ** BigInt(k), k >= 0
BigPow10(k) ==
  Big(FALSE, [i \in 1..(k \div LimbDigits) |-> 0]
             \o <<Pow10Small(k % LimbDigits)>>)

----------------------------------------------------------------------------
(* JavaScript numbers and strings.                                         *)
(* A string is a sequence of one-character strings.  A number carries what *)
(* the built-ins the library calls on it return: str is n.toString(), p17  *)
(* is n.toPrecision(17), and num / 10^fdig is the exact magnitude of the   *)
(* double (fdig = 0 exactly when the number is an integer), which decides  *)
(* Number.isInteger, the comparisons, BigInt(n) and the double products.   *)

DigitChars == <<"0", "1", "2", "3", "4", "5", "6", "7", "8", "9">>

DigitOf(c) == (CHOOSE i \in 1..10 : DigitChars[i] = c) - 1

NumNaN == [kind |-> "NaN", neg |-> FALSE, str |-> <<"N", "a", "N">>,
           p17 |-> <<"N", "a", "N">>, num |-> <<>>, fdig |-> 0]

NumInfinity == [kind |-> "Infinity", neg |-> FALSE, str |-> <<"I">>,
                p17 |-> <<"I">>, num |-> <<>>, fdig |-> 0]

NumNegInfinity == [kind |-> "Infinity", neg |-> TRUE, str |-> <<"-", "I">>,
                   p17 |-> <<"-", "I">>, num |-> <<>>, fdig |-> 0]

\* the decimal digits of a natural number n < 2^31
NatChars(n) ==
  LET len == IF n >= Pow10Small(9) THEN 10
             ELSE CHOOSE l \in 1..9 :
                    n < Pow10Small(l) /\ (l = 1 \/ n >= Pow10Small(l - 1))
  IN  [i \in 1..len |-> DigitChars[((n \div Pow10Small(len - i)) % 10) + 1]]

\* the number k, for an integer k small enough to print without an exponent
NumOfInt(k) ==
  [kind |-> "finite", neg |-> k < 0,
   str |-> IF k < 0 THEN <<"-">> \o NatChars(-k) ELSE NatChars(k),
   p17 |-> <<>>,
   num |-> NatLimbs(IF k < 0 THEN -k ELSE k),
   fdig |-> 0]

\* Number.isFinite(n)
NumIsFinite(n) == n.kind = "finite"

\* n === 0
NumIsZero(n) == n.kind = "finite" /\ n.num = <<>>

\* Number.isInteger(n)
NumIsInteger(n) == n.kind = "finite" /\ n.fdig = 0

\* n as a bigint pair: value = NumScaled(n) / 10^n.fdig
NumScaled(n) == Big(n.neg, n.num)

\* n < k for a small integer k (false for NaN)
NumLtInt(n, k) ==
  CASE n.kind = "NaN" -> FALSE
    [] n.kind = "Infinity" -> n.neg
    [] OTHER -> BigLt(NumScaled(n), BigMul(BigOf(k), BigPow10(n.fdig)))

\* n <= k for a small integer k (false for NaN)
NumLeInt(n, k) ==
  CASE n.kind = "NaN" -> FALSE
    [] n.kind = "Infinity" -> n.neg
    [] OTHER -> BigLe(NumScaled(n), BigMul(BigOf(k), BigPow10(n.fdig)))

\* BigInt(n) for an integer n
NumToBig(n) == NumScaled(n)

\* s.indexOf(c), counted from 1, 0 when absent; cs holds the accepted characters
IndexOf(s, cs) ==
  LET at == {i \in DOMAIN s : s[i] \in cs}
  IN  IF at = {} THEN 0 ELSE CHOOSE i \in at : \A j \in at : i <= j

\* s.slice(from) and s.slice(from, to) with positions counted from 1, to inclusive
SliceFrom(s, from) == SubSeq(s, from, Len(s))

SliceTo(s, to) == SubSeq(s, 1, IF to < Len(s) THEN to ELSE Len(s))

\* s.padEnd(n, "0")
PadEnd(s, n) ==
  IF Len(s) >= n THEN s
  ELSE [i \in 1..n |-> IF i <= Len(s) THEN s[i] ELSE "0"]

RECURSIVE DigitsValue(_)
DigitsValue(s) ==
  IF s = <<>> THEN 0
  ELSE 10 * DigitsValue(SubSeq(s, 1, Len(s) - 1)) + DigitOf(s[Len(s)])

\* parseInt(s, 10) of an optionally signed run of digits
ParseInt(s) ==
  IF s # <<>> /\ s[1] = "-" THEN -DigitsValue(Tail(s))
  ELSE IF s # <<>> /\ s[1] = "+" THEN DigitsValue(Tail(s))
  ELSE DigitsValue(s)

\* the limbs of a string of digits: limb j holds the j-th group of four
\* digits from the right
DigitsMag(s) ==
  LET digit(p) == IF p >= 1 THEN DigitOf(s[p]) ELSE 0
  IN  [j \in 1..((Len(s) + LimbDigits - 1) \div LimbDigits) |->
         digit(Len(s) - LimbDigits * (j - 1))
         + 10 * digit(Len(s) - LimbDigits * (j - 1) - 1)
         + 100 * digit(Len(s) - LimbDigits * (j - 1) - 2)
         + 1000 * digit(Len(s) - LimbDigits * (j - 1) - 3)]

\* BigInt(s) for a string of digits
BigOfString(s) == Big(FALSE, Trim(DigitsMag(s)))

----------------------------------------------------------------------------
(* money.ts: the scaled-decimal codec and the rounding engine *)

INTERNAL_PRECISION == 20

INTERNAL_SCALE == BigPow10(INTERNAL_PRECISION)

\* numberToDecimalString throws for NaN and the infinities
numberToDecimalStringThrows(n) == ~NumIsFinite(n)

numberToDecimalString(n) ==
  IF NumIsZero(n) THEN <<"0">>
  ELSE IF IndexOf(n.str, {"e", "E"}) # 0 THEN n.p17
  ELSE n.str

RECURSIVE parseDecimalStringToScaled(_)
parseDecimalStringToScaled(str0) ==
  LET negative == str0 # <<>> /\ str0[1] = "-"
      str      == IF negative THEN Tail(str0) ELSE str0
      eIndex   == IndexOf(str, {"e", "E"})
  IN  IF eIndex # 0
      THEN LET mantissa       == SliceTo(str, eIndex - 1)
               exponent       == ParseInt(SliceFrom(str, eIndex + 1))
               scaledMantissa == parseDecimalStringToScaled(mantissa)
               sign           == IF negative THEN BigOf(-1) ELSE BigOf(1)
           IN  IF exponent >= 0
               THEN BigMul(BigMul(sign, scaledMantissa), BigPow10(exponent))
               ELSE BigDiv(BigMul(sign, scaledMantissa), BigPow10(-exponent))
      ELSE LET dotIndex == IndexOf(str, {"."})
               intRaw   == IF dotIndex = 0 THEN str ELSE SliceTo(str, dotIndex - 1)
               intPart  == IF intRaw = <<>> THEN <<"0">> ELSE intRaw
               decRaw   == IF dotIndex = 0 THEN <<>> ELSE SliceFrom(str, dotIndex + 1)
               decPart  == SliceTo(PadEnd(decRaw, INTERNAL_PRECISION),
                                   INTERNAL_PRECISION)
               scaledInt == BigMul(BigOfString(intPart), INTERNAL_SCALE)
               scaledDec == BigOfString(decPart)
               result    == BigAdd(scaledInt, scaledDec)
           IN  IF negative THEN BigNeg(result) ELSE result

\* INTERNAL_SCALE / targetScale for a currency with dp decimal places
ScaleDivisor(dp) == BigDiv(INTERNAL_SCALE, BigPow10(dp))

\* the bigint division by the divisor throws a RangeError when it is 0n
roundScaledToMinorThrows(targetDecimalPlaces) ==
  BigIsZero(ScaleDivisor(targetDecimalPlaces))

\* Variant: floor and ceil return the truncated quotient for a negative value
\* as for a positive one.
roundQuotientUnsigned(quotient, remainder, isNegative, halfDivisor, mode) ==
  IF BigIsZero(remainder) THEN quotient
  ELSE CASE mode = "floor" -> quotient
         [] mode = "ceil" -> BigAdd(quotient, BigOf(1))
         [] mode = "trunc" -> quotient
         [] OTHER ->
              IF BigGe(BigAbs(remainder), halfDivisor)
              THEN BigAdd(quotient, BigOf(1))
              ELSE quotient

\* Variant: the default mode rounds every midpoint away from zero.
roundQuotientHalfAway(quotient, remainder, isNegative, halfDivisor, mode) ==
  IF BigIsZero(remainder) THEN quotient
  ELSE CASE mode = "floor" ->
              IF isNegative THEN BigSub(quotient, BigOf(1)) ELSE quotient
         [] mode = "ceil" ->
              IF isNegative THEN quotient ELSE BigAdd(quotient, BigOf(1))
         [] mode = "trunc" -> quotient
         [] OTHER ->
              IF BigGe(BigAbs(remainder), halfDivisor)
              THEN IF isNegative THEN BigSub(quotient, BigOf(1))
                   ELSE BigAdd(quotient, BigOf(1))
              ELSE quotient

\* roundScaledToMinor from the test of the remainder on (money.ts:92-114),
\* given the values of its constants
roundQuotient(quotient, remainder, isNegative, halfDivisor, mode) ==
  LET absRemainder == IF isNegative THEN BigNeg(remainder) ELSE remainder
  IN  IF BigIsZero(remainder) THEN quotient
      ELSE CASE mode = "floor" ->
                  IF isNegative THEN BigSub(quotient, BigOf(1)) ELSE quotient
             [] mode = "ceil" ->
                  IF isNegative THEN quotient ELSE BigAdd(quotient, BigOf(1))
             [] mode = "trunc" -> quotient
             [] OTHER ->
                  IF BigGt(absRemainder, halfDivisor)
                     \/ (absRemainder = halfDivisor /\ ~isNegative)
                  THEN IF isNegative THEN BigSub(quotient, BigOf(1))
                       ELSE BigAdd(quotient, BigOf(1))
                  ELSE quotient

\* roundScaledToMinor from the division on (money.ts:89-114), given the divisor
roundByDivisor(scaled, divisor, mode) ==
  roundQuotient(BigDiv(scaled, divisor), BigRem(scaled, divisor),
                BigLt(scaled, BigZero), BigDiv(divisor, BigOf(2)), mode)

roundScaledToMinor(scaled, targetDecimalPlaces, mode) ==
  roundByDivisor(scaled, ScaleDivisor(targetDecimalPlaces), mode)

----------------------------------------------------------------------------
(* State: the currency records and the Money instances that exist.  A      *)
(* record or a Money is identified by its position in its heap; a Money    *)
(* holds its minor amount and a reference to its currency record.  last    *)
(* describes the most recent call: its operands (args are positions in     *)
(* monies), its outcome ("ok" or the name of the failure) and what it      *)
(* returned (res are the positions of the Money instances it created).     *)

VARIABLES records, monies, last

vars == <<records, monies, last>>

\* Currency.USD, USDH, EUR, JPY and BTC of currency.ts
BuiltinRecords ==
  << [code |-> "USD", decimalPlaces |-> 2],
     [code |-> "USDH", decimalPlaces |-> 3],
     [code |-> "EUR", decimalPlaces |-> 2],
     [code |-> "JPY", decimalPlaces |-> 0],
     [code |-> "BTC", decimalPlaces |-> 8] >>

USD == 1

USDH == 2

EUR == 3

JPY == 4

BTC == 5

NoNum == [kind |-> "none", neg |-> FALSE, str |-> <<>>, p17 |-> <<>>,
          num |-> <<>>, fdig |-> 0]

NoCall ==
  [op |-> "none", args |-> <<>>, cur |-> 0, num |-> NoNum, mode |-> "",
   strict |-> FALSE, scaled |-> BigZero, places |-> 0,
   outcome |-> "", res |-> <<>>, cmp |-> 0, flag |-> FALSE, val |-> BigZero,
   ret |-> NoNum, code |-> ""]

\* what a call produced: the Money values it constructed, or the failure
Returns(ms) == [outcome |-> "ok", out |-> ms, cmp |-> 0, flag |-> FALSE]

Throws(e) == [outcome |-> e, out |-> <<>>, cmp |-> 0, flag |-> FALSE]

ReturnsNumber(n) == [outcome |-> "ok", out |-> <<>>, cmp |-> n, flag |-> FALSE]

ReturnsBoolean(b) == [outcome |-> "ok", out |-> <<>>, cmp |-> 0, flag |-> b]

\* new Money(minor, currency)
NewMoney(minor, currency) == [minor |-> minor, currency |-> currency]

\* Number.MAX_SAFE_INTEGER = 2^53 - 1 = 9007199254740991
MAX_SAFE_INTEGER == Big(FALSE, <<991, 5474, 1992, 9007>>)

\* Number.isSafeInteger(n)
NumIsSafeInteger(n) ==
  NumIsInteger(n) /\ BigLe(BigAbs(NumToBig(n)), MAX_SAFE_INTEGER)

\* Variant: the check compares the codes alone.
assertCurrenciesMatchThrowsByCode(a, b) == records[a].code # records[b].code

\* Variant: the second record may have fewer decimal places than the first.
assertCurrenciesMatchThrowsOneWay(a, b) ==
  records[a].code # records[b].code
  \/ records[a].decimalPlaces < records[b].decimalPlaces

assertCurrenciesMatchThrows(a, b) ==
  records[a].code # records[b].code
  \/ records[a].decimalPlaces # records[b].decimalPlaces

\* Variant: the check rejects the limits themselves.
assertSafeResultThrowsAtLimit(value) ==
  BigGe(value, MAX_SAFE_INTEGER) \/ BigLe(value, BigNeg(MAX_SAFE_INTEGER))

assertSafeResultThrows(value) ==
  BigGt(value, MAX_SAFE_INTEGER) \/ BigLt(value, BigNeg(MAX_SAFE_INTEGER))

\* assertSafeResult(minor); return new Money(minor, currency)
newSafeMoney(minor, currency) ==
  IF assertSafeResultThrows(minor) THEN Throws("ResultTooLarge")
  ELSE Returns(<<NewMoney(minor, currency)>>)

\* Math.abs(value) * 10 ** dp > Number.MAX_SAFE_INTEGER in double arithmetic.
\* 10 ** dp is exact for dp <= 22 and the product is rounded to the nearest
\* double, ties to even, so it exceeds 2^53 - 1 exactly when the exact product
\* of the double is at least 2^53 - 1/2.
EstimateExceedsSafe(value, dp) ==
  CASE value.kind = "NaN" -> FALSE
    [] value.kind = "Infinity" -> TRUE
    [] OTHER ->
         BigGe(BigMul(BigOf(2), BigMul(Big(FALSE, value.num), BigPow10(dp))),
               BigMul(BigAdd(BigMul(BigOf(2), MAX_SAFE_INTEGER), BigOf(1)),
                      BigPow10(value.fdig)))

\* Variant: the option left out stands for trunc.
RoundingOrTrunc(rounding) == IF rounding = "undefined" THEN "trunc" ELSE rounding

\* const { rounding = "round" } = options
RoundingOrDefault(rounding) == IF rounding = "undefined" THEN "round" ELSE rounding

\* scaledValue of fromNumber (money.ts:167-170), for a finite value
fromNumberScaledValue(value) ==
  parseDecimalStringToScaled(numberToDecimalString(value))

\* fromNumber from the strict check on (money.ts:172-188), given scaledValue
fromNumberScaled(currency, scaledValue, dp, rounding, strict) ==
  IF roundScaledToMinorThrows(dp) THEN Throws("RangeError")
  ELSE IF strict /\ ~BigIsZero(BigRem(scaledValue, ScaleDivisor(dp)))
  THEN Throws("PrecisionLoss")
  ELSE newSafeMoney(roundScaledToMinor(scaledValue, dp, rounding), currency)

fromNumber(currency, value, rounding0, strict) ==
  IF EstimateExceedsSafe(value, records[currency].decimalPlaces)
  THEN Throws("ValueTooLarge")
  ELSE IF numberToDecimalStringThrows(value) THEN Throws("InvalidNumber")
  ELSE fromNumberScaled(currency, fromNumberScaledValue(value),
                        records[currency].decimalPlaces,
                        RoundingOrDefault(rounding0), strict)

\* BigInt(minor) throws a RangeError for a number that is not an integer
fromMinor(currency, minor) ==
  IF ~NumIsInteger(minor) THEN Throws("RangeError")
  ELSE Returns(<<NewMoney(NumToBig(minor), currency)>>)

\* the decimal digits of a magnitude
MagChars(mag) ==
  IF mag = <<>> THEN <<"0">>
  ELSE NatChars(mag[Len(mag)])
       \o [j \in 1..(LimbDigits * (Len(mag) - 1)) |->
            DigitChars[((mag[Len(mag) - 1 - ((j - 1) \div LimbDigits)]
                         \div Pow10Small(LimbDigits - 1 - ((j - 1) % LimbDigits)))
                        % 10) + 1]]

\* the nearest double to a magnitude below 2^54: itself up to 2^53 and when
\* even, and for an odd one above 2^53 the neighbour that is a multiple of 4
NearestDouble(mag) ==
  IF MagCmp(mag, MagAdd(MAX_SAFE_INTEGER.mag, <<1>>)) <= 0
     \/ mag[1] % 2 = 0
  THEN mag
  ELSE IF (mag[1] - 1) % 4 = 0 THEN MagSub(mag, <<1>>) ELSE MagAdd(mag, <<1>>)

\* Number(x) for a bigint x of magnitude below 2^54
NumberOfBig(x) ==
  [kind |-> "finite", neg |-> x.neg /\ x.mag # <<>>,
   str |-> IF x.neg /\ x.mag # <<>>
           THEN <<"-">> \o MagChars(NearestDouble(x.mag))
           ELSE MagChars(NearestDouble(x.mag)),
   p17 |-> <<>>,
   num |-> NearestDouble(x.mag),
   fdig |-> 0]

\* Variant: the amount is returned in whole major units.
toMinorMajor(money) ==
  NumberOfBig(BigDiv(money.minor,
                     BigPow10(records[money.currency].decimalPlaces)))

toMinor(money) == NumberOfBig(money.minor)

toJSON(money) ==
  [amount |-> toMinor(money), currency |-> records[money.currency].code]

add(a, b) ==
  IF assertCurrenciesMatchThrows(a.currency, b.currency)
  THEN Throws("CurrencyMismatch")
  ELSE newSafeMoney(BigAdd(a.minor, b.minor), a.currency)

subtract(a, b) ==
  IF assertCurrenciesMatchThrows(a.currency, b.currency)
  THEN Throws("CurrencyMismatch")
  ELSE newSafeMoney(BigSub(a.minor, b.minor), a.currency)

\* the loop of sum over items[i..]: the first mismatch throws, else the total
RECURSIVE sumLoop(_, _, _, _)
sumLoop(items, currency, i, total) ==
  IF i > Len(items) THEN [mismatch |-> FALSE, total |-> total]
  ELSE IF assertCurrenciesMatchThrows(items[i].currency, currency)
  THEN [mismatch |-> TRUE, total |-> total]
  ELSE sumLoop(items, currency, i + 1, BigAdd(total, items[i].minor))

\* sum after its loop (money.ts:233-234)
sumTotal(loop, currency) ==
  IF loop.mismatch THEN Throws("CurrencyMismatch")
  ELSE newSafeMoney(loop.total, currency)

\* Variant: the range check is made after every addition.
RECURSIVE sumLoopEachStep(_, _, _, _)
sumLoopEachStep(items, currency, i, total) ==
  IF i > Len(items) THEN Returns(<<NewMoney(total, currency)>>)
  ELSE IF assertCurrenciesMatchThrows(items[i].currency, currency)
  THEN Throws("CurrencyMismatch")
  ELSE IF assertSafeResultThrows(BigAdd(total, items[i].minor))
  THEN Throws("ResultTooLarge")
  ELSE sumLoopEachStep(items, currency, i + 1, BigAdd(total, items[i].minor))

sumEachStep(items) ==
  IF items = <<>> THEN Throws("EmptyInput")
  ELSE sumLoopEachStep(items, items[1].currency, 1, BigZero)

sum(items) ==
  IF items = <<>> THEN Throws("EmptyInput")
  ELSE sumTotal(sumLoop(items, items[1].currency, 1, BigZero), items[1].currency)

equals(a, b) ==
  IF assertCurrenciesMatchThrows(a.currency, b.currency)
  THEN Throws("CurrencyMismatch")
  ELSE ReturnsBoolean(a.minor = b.minor)

\* Variant: the amounts are compared by magnitude.
compareByMagnitude(a, b) ==
  IF assertCurrenciesMatchThrows(a.currency, b.currency)
  THEN Throws("CurrencyMismatch")
  ELSE IF BigLt(BigAbs(a.minor), BigAbs(b.minor)) THEN ReturnsNumber(-1)
  ELSE IF BigGt(BigAbs(a.minor), BigAbs(b.minor)) THEN ReturnsNumber(1)
  ELSE ReturnsNumber(0)

compare(a, b) ==
  IF assertCurrenciesMatchThrows(a.currency, b.currency)
  THEN Throws("CurrencyMismatch")
  ELSE IF BigLt(a.minor, b.minor) THEN ReturnsNumber(-1)
  ELSE IF BigGt(a.minor, b.minor) THEN ReturnsNumber(1)
  ELSE ReturnsNumber(0)

lessThan(a, b) ==
  IF assertCurrenciesMatchThrows(a.currency, b.currency)
  THEN Throws("CurrencyMismatch")
  ELSE ReturnsBoolean(BigLt(a.minor, b.minor))

greaterThan(a, b) ==
  IF assertCurrenciesMatchThrows(a.currency, b.currency)
  THEN Throws("CurrencyMismatch")
  ELSE ReturnsBoolean(BigGt(a.minor, b.minor))

lessThanOrEqual(a, b) ==
  IF assertCurrenciesMatchThrows(a.currency, b.currency)
  THEN Throws("CurrencyMismatch")
  ELSE ReturnsBoolean(BigLe(a.minor, b.minor))

greaterThanOrEqual(a, b) ==
  IF assertCurrenciesMatchThrows(a.currency, b.currency)
  THEN Throws("CurrencyMismatch")
  ELSE ReturnsBoolean(BigGe(a.minor, b.minor))

\* the integer value of a bigint magnitude below 2^31
MagValue(m) == Limb(m, 1) + LimbBase * Limb(m, 2) + LimbBase * LimbBase * Limb(m, 3)

\* Variant: the extra units go to the last shares instead of the first ones.
allocateSharesToLast(money, count, base, remainder) ==
  Returns([i \in 1..count |->
             NewMoney(BigAdd(base,
                             IF BigLt(BigOf(count - i), BigAbs(remainder))
                             THEN (IF BigLt(remainder, BigZero)
                                   THEN BigOf(-1) ELSE BigOf(1))
                             ELSE BigZero),
                      money.currency)])

\* the loop of allocate (money.ts:332-341), given base and remainder; share i
\* is the one pushed when the loop counter is i - 1
allocateShares(money, count, base, remainder) ==
  LET absRemainder == IF BigLt(remainder, BigZero) THEN BigNeg(remainder)
                      ELSE remainder
      sign         == IF BigLt(remainder, BigZero) THEN BigOf(-1) ELSE BigOf(1)
  IN  Returns([i \in 1..count |->
                 NewMoney(BigAdd(base,
                                 IF BigLt(BigOf(i - 1), absRemainder)
                                 THEN sign ELSE BigZero),
                          money.currency)])

\* the greatest length of an Array, 2^32 - 1: the push that would pass it
\* throws a RangeError
MaxArrayLength == BigSub(BigMul(BigOf(65536), BigOf(65536)), BigOf(1))

allocate(money, parts) ==
  IF ~NumIsInteger(parts) \/ NumLtInt(parts, 1) THEN Throws("InvalidCount")
  ELSE IF ~NumIsSafeInteger(parts) THEN Throws("UnsafeCount")
  ELSE IF BigGt(NumToBig(parts), MaxArrayLength) THEN Throws("RangeError")
  ELSE allocateShares(money, MagValue(NumToBig(parts).mag),
                      BigDiv(money.minor, NumToBig(parts)),
                      BigRem(money.minor, NumToBig(parts)))

\* Variant: the amount is brought down from the internal scale before it is
\* multiplied by the rate.
convertRawProductDivideFirst(money, rate) ==
  LET scaledRate   == parseDecimalStringToScaled(numberToDecimalString(rate))
      sourceScale  == BigPow10(records[money.currency].decimalPlaces)
      scaledSource == BigMul(money.minor, BigDiv(INTERNAL_SCALE, sourceScale))
  IN  BigMul(BigDiv(scaledSource, INTERNAL_SCALE), scaledRate)

\* the product of the amount and the rate at the internal scale
\* (money.ts:366-371), for a finite rate
convertRawProduct(money, rate) ==
  LET scaledRate   == parseDecimalStringToScaled(numberToDecimalString(rate))
      sourceScale  == BigPow10(records[money.currency].decimalPlaces)
      scaledSource == BigMul(money.minor, BigDiv(INTERNAL_SCALE, sourceScale))
  IN  BigDiv(BigMul(scaledSource, scaledRate), INTERNAL_SCALE)

\* Variant: the rate check lets the rate 0 through.
convertZeroRate(money, targetCurrency, rate, rounding0) ==
  IF ~NumIsFinite(rate) \/ NumLtInt(rate, 0) THEN Throws("InvalidRate")
  ELSE IF roundScaledToMinorThrows(records[targetCurrency].decimalPlaces)
  THEN Throws("RangeError")
  ELSE newSafeMoney(roundScaledToMinor(convertRawProduct(money, rate),
                                       records[targetCurrency].decimalPlaces,
                                       RoundingOrDefault(rounding0)),
                    targetCurrency)

convert(money, targetCurrency, rate, rounding0) ==
  IF ~NumIsFinite(rate) \/ NumLeInt(rate, 0) THEN Throws("InvalidRate")
  ELSE IF roundScaledToMinorThrows(records[targetCurrency].decimalPlaces)
  THEN Throws("RangeError")
  ELSE newSafeMoney(roundScaledToMinor(convertRawProduct(money, rate),
                                       records[targetCurrency].decimalPlaces,
                                       RoundingOrDefault(rounding0)),
                    targetCurrency)

\* Variant: the default mode rounds every midpoint away from zero.
roundToIncrementHalfAway(minor, incrementMinor, remainder, mode) ==
  LET base == BigSub(minor, remainder)
      away == IF BigLt(minor, BigZero) THEN BigSub(base, incrementMinor)
              ELSE BigAdd(base, incrementMinor)
  IN  CASE mode = "trunc" -> base
        [] mode = "floor" -> IF BigLt(minor, BigZero) THEN away ELSE base
        [] mode = "ceil" -> IF BigLt(minor, BigZero) THEN base ELSE away
        [] OTHER ->
             IF BigLt(BigMul(BigAbs(remainder), BigOf(2)), incrementMinor)
             THEN base ELSE away

\* the switch of roundTo (money.ts:429-454), for a remainder that is not 0n
roundToIncrement(minor, incrementMinor, remainder, mode) ==
  LET base  == BigSub(minor, remainder)
      isNeg == BigLt(minor, BigZero)
      absRemainder == IF BigLt(remainder, BigZero) THEN BigNeg(remainder)
                      ELSE remainder
      cmp   == BigSub(BigMul(absRemainder, BigOf(2)), incrementMinor)
  IN  CASE mode = "trunc" -> base
        [] mode = "floor" -> IF isNeg THEN BigSub(base, incrementMinor) ELSE base
        [] mode = "ceil" -> IF isNeg THEN base ELSE BigAdd(base, incrementMinor)
        [] OTHER ->
             IF BigLt(cmp, BigZero) THEN base
             ELSE IF BigGt(cmp, BigZero)
             THEN IF isNeg THEN BigSub(base, incrementMinor)
                  ELSE BigAdd(base, incrementMinor)
             ELSE IF isNeg THEN base ELSE BigAdd(base, incrementMinor)

\* roundTo from the remainder on (money.ts:422-457)
roundToRemainder(money, incrementMinor, remainder, mode) ==
  IF BigIsZero(remainder) THEN Returns(<<NewMoney(money.minor, money.currency)>>)
  ELSE newSafeMoney(roundToIncrement(money.minor, incrementMinor, remainder, mode),
                    money.currency)

\* roundTo from the increment in minor units on (money.ts:415-457)
roundToMinor(money, incrementMinor, mode) ==
  IF BigIsZero(incrementMinor) THEN Throws("IncrementTooSmall")
  ELSE roundToRemainder(money, incrementMinor,
                        BigRem(money.minor, incrementMinor), mode)

\* roundTo from the check of the increment on (money.ts:405-457); the bigint
\* remainder by a divisor of 0n throws a RangeError
roundToScaled(money, scaledIncrement, divisor, mode) ==
  IF BigIsZero(divisor) THEN Throws("RangeError")
  ELSE IF ~BigIsZero(BigRem(scaledIncrement, divisor))
  THEN Throws("IncrementNotRepresentable")
  ELSE roundToMinor(money, BigDiv(scaledIncrement, divisor), mode)

roundTo(money, increment, mode0) ==
  IF ~NumIsFinite(increment) \/ NumLeInt(increment, 0)
  THEN Throws("InvalidIncrement")
  ELSE roundToScaled(money,
                     parseDecimalStringToScaled(numberToDecimalString(increment)),
                     ScaleDivisor(records[money.currency].decimalPlaces),
                     RoundingOrDefault(mode0))

\* the shared tail of the three percent operations: the rounding of rawResult
\* to the currency of money and the overflow guard
percentResult(money, rawResult, rounding) ==
  IF roundScaledToMinorThrows(records[money.currency].decimalPlaces)
  THEN Throws("RangeError")
  ELSE newSafeMoney(roundScaledToMinor(rawResult,
                                       records[money.currency].decimalPlaces,
                                       rounding),
                    money.currency)

\* money.#minor * (INTERNAL_SCALE / currencyScale)
scaledMoneyOf(money) ==
  BigMul(money.minor,
         BigDiv(INTERNAL_SCALE, BigPow10(records[money.currency].decimalPlaces)))

scaledHundred == BigMul(BigOf(100), INTERNAL_SCALE)

\* rawResult of percentOf (money.ts:476-483), for a finite percent
percentOfRaw(money, percent) ==
  BigDiv(BigMul(scaledMoneyOf(money),
                parseDecimalStringToScaled(numberToDecimalString(percent))),
         scaledHundred)

percentOf(money, percent, rounding0) ==
  IF numberToDecimalStringThrows(percent) THEN Throws("InvalidNumber")
  ELSE percentResult(money, percentOfRaw(money, percent),
                     RoundingOrDefault(rounding0))

\* rawResult of incrementByPercent (money.ts:502-512), for a finite percent
incrementByPercentRaw(money, percent) ==
  BigDiv(BigMul(scaledMoneyOf(money),
                BigAdd(scaledHundred,
                       parseDecimalStringToScaled(numberToDecimalString(percent)))),
         scaledHundred)

incrementByPercent(money, percent, rounding0) ==
  IF numberToDecimalStringThrows(percent) THEN Throws("InvalidNumber")
  ELSE percentResult(money, incrementByPercentRaw(money, percent),
                     RoundingOrDefault(rounding0))

\* Variant: the percent is taken off by its magnitude.
decrementByPercentRawUnsigned(money, percent) ==
  BigDiv(BigMul(scaledMoneyOf(money),
                BigSub(scaledHundred,
                       BigAbs(parseDecimalStringToScaled(
                                numberToDecimalString(percent))))),
         scaledHundred)

\* rawResult of decrementByPercent (money.ts:531-541), for a finite percent
decrementByPercentRaw(money, percent) ==
  BigDiv(BigMul(scaledMoneyOf(money),
                BigSub(scaledHundred,
                       parseDecimalStringToScaled(numberToDecimalString(percent)))),
         scaledHundred)

decrementByPercent(money, percent, rounding0) ==
  IF numberToDecimalStringThrows(percent) THEN Throws("InvalidNumber")
  ELSE percentResult(money, decrementByPercentRaw(money, percent),
                     RoundingOrDefault(rounding0))

\* Variant: a negative number of decimal places is let through.
defineCurrencyThrowsNonInteger(code, decimalPlaces) ==
  code = "" \/ ~NumIsInteger(decimalPlaces)

\* defineCurrency of currency.ts: the frozen record, or the failure
defineCurrencyThrows(code, decimalPlaces) ==
  code = "" \/ ~NumIsInteger(decimalPlaces) \/ NumLtInt(decimalPlaces, 0)

defineCurrency(code, decimalPlaces) ==
  [code |-> code, decimalPlaces |-> MagValue(decimalPlaces.num)]

----------------------------------------------------------------------------
(* The calls.  A call leaves every existing Money and record as it is,     *)
(* appends the Money instances it constructs and describes itself in last. *)

\* Variant: a call that returns one Money writes it over its first operand.
CallInPlace(op, args, cur, num, mode, strict, r) ==
  /\ monies' = IF args # <<>> /\ Len(r.out) = 1
                THEN [monies EXCEPT ![args[1]] = r.out[1]]
                ELSE monies \o r.out
  /\ last' = [NoCall EXCEPT !.op = op, !.args = args, !.cur = cur, !.num = num,
                            !.mode = mode, !.strict = strict,
                            !.outcome = r.outcome,
                            !.res = IF args # <<>> /\ Len(r.out) = 1
                                    THEN <<args[1]>>
                                    ELSE [i \in 1..Len(r.out) |-> Len(monies) + i],
                            !.cmp = r.cmp, !.flag = r.flag]
  /\ UNCHANGED records

Call(op, args, cur, num, mode, strict, r) ==
  /\ monies' = monies \o r.out
  /\ last' = [NoCall EXCEPT !.op = op, !.args = args, !.cur = cur, !.num = num,
                            !.mode = mode, !.strict = strict,
                            !.outcome = r.outcome,
                            !.res = [i \in 1..Len(r.out) |-> Len(monies) + i],
                            !.cmp = r.cmp, !.flag = r.flag]
  /\ UNCHANGED records

FromNumber(c, v, rounding, strict) ==
  /\ c \in DOMAIN records
  /\ Call("fromNumber", <<>>, c, v, rounding, strict,
          fromNumber(c, v, rounding, strict))

FromMinor(c, n) ==
  /\ c \in DOMAIN records
  /\ Call("fromMinor", <<>>, c, n, "", FALSE, fromMinor(c, n))

Add(a, b) ==
  /\ a \in DOMAIN monies /\ b \in DOMAIN monies
  /\ Call("add", <<a, b>>, 0, NoNum, "", FALSE, add(monies[a], monies[b]))

Subtract(a, b) ==
  /\ a \in DOMAIN monies /\ b \in DOMAIN monies
  /\ Call("subtract", <<a, b>>, 0, NoNum, "", FALSE,
          subtract(monies[a], monies[b]))

\* items is a sequence of positions in monies
Sum(items) ==
  /\ \A k \in DOMAIN items : items[k] \in DOMAIN monies
  /\ Call("sum", items, 0, NoNum, "", FALSE,
          sum([k \in DOMAIN items |-> monies[items[k]]]))

Equals(a, b) ==
  /\ a \in DOMAIN monies /\ b \in DOMAIN monies
  /\ Call("equals", <<a, b>>, 0, NoNum, "", FALSE, equals(monies[a], monies[b]))

Compare(a, b) ==
  /\ a \in DOMAIN monies /\ b \in DOMAIN monies
  /\ Call("compare", <<a, b>>, 0, NoNum, "", FALSE, compare(monies[a], monies[b]))

LessThan(a, b) ==
  /\ a \in DOMAIN monies /\ b \in DOMAIN monies
  /\ Call("lessThan", <<a, b>>, 0, NoNum, "", FALSE,
          lessThan(monies[a], monies[b]))

GreaterThan(a, b) ==
  /\ a \in DOMAIN monies /\ b \in DOMAIN monies
  /\ Call("greaterThan", <<a, b>>, 0, NoNum, "", FALSE,
          greaterThan(monies[a], monies[b]))

LessThanOrEqual(a, b) ==
  /\ a \in DOMAIN monies /\ b \in DOMAIN monies
  /\ Call("lessThanOrEqual", <<a, b>>, 0, NoNum, "", FALSE,
          lessThanOrEqual(monies[a], monies[b]))

GreaterThanOrEqual(a, b) ==
  /\ a \in DOMAIN monies /\ b \in DOMAIN monies
  /\ Call("greaterThanOrEqual", <<a, b>>, 0, NoNum, "", FALSE,
          greaterThanOrEqual(monies[a], monies[b]))

Allocate(m, parts) ==
  /\ m \in DOMAIN monies
  /\ Call("allocate", <<m>>, 0, parts, "", FALSE, allocate(monies[m], parts))

Convert(m, c, rate, rounding) ==
  /\ m \in DOMAIN monies /\ c \in DOMAIN records
  /\ Call("convert", <<m>>, c, rate, rounding, FALSE,
          convert(monies[m], c, rate, rounding))

RoundTo(m, increment, mode) ==
  /\ m \in DOMAIN monies
  /\ Call("roundTo", <<m>>, 0, increment, mode, FALSE,
          roundTo(monies[m], increment, mode))

PercentOf(m, percent, rounding) ==
  /\ m \in DOMAIN monies
  /\ Call("percentOf", <<m>>, 0, percent, rounding, FALSE,
          percentOf(monies[m], percent, rounding))

IncrementByPercent(m, percent, rounding) ==
  /\ m \in DOMAIN monies
  /\ Call("incrementByPercent", <<m>>, 0, percent, rounding, FALSE,
          incrementByPercent(monies[m], percent, rounding))

DecrementByPercent(m, percent, rounding) ==
  /\ m \in DOMAIN monies
  /\ Call("decrementByPercent", <<m>>, 0, percent, rounding, FALSE,
          decrementByPercent(monies[m], percent, rounding))

\* a call of the rounding engine on its own (it is private to money.ts: every
\* value-producing operation reaches it with some scaled value)
ToMinor(m) ==
  /\ m \in DOMAIN monies
  /\ last' = [NoCall EXCEPT !.op = "toMinor", !.args = <<m>>, !.outcome = "ok",
                            !.ret = toMinor(monies[m])]
  /\ UNCHANGED <<records, monies>>

ToJSON(m) ==
  /\ m \in DOMAIN monies
  /\ last' = [NoCall EXCEPT !.op = "toJSON", !.args = <<m>>, !.outcome = "ok",
                            !.ret = toJSON(monies[m]).amount,
                            !.code = toJSON(monies[m]).currency]
  /\ UNCHANGED <<records, monies>>

\* defineCurrency(code, decimalPlaces): the record it returns is a new one
DefineCurrency(code, decimalPlaces) ==
  /\ records' = IF defineCurrencyThrows(code, decimalPlaces) THEN records
                 ELSE Append(records, defineCurrency(code, decimalPlaces))
  /\ last' = [NoCall EXCEPT !.op = "defineCurrency", !.code = code,
                            !.num = decimalPlaces,
                            !.outcome = IF defineCurrencyThrows(code, decimalPlaces)
                                        THEN "InvalidCurrencyDefinition"
                                        ELSE "ok",
                            !.cur = IF defineCurrencyThrows(code, decimalPlaces)
                                    THEN 0 ELSE Len(records) + 1]
  /\ UNCHANGED monies

\* the caller writes the object literal { code, decimalPlaces }, a
\* CurrencyDefinition that is not frozen
ObjectLiteral(code, decimalPlaces) ==
  /\ records' = Append(records, [code |-> code, decimalPlaces |-> decimalPlaces])
  /\ last' = [NoCall EXCEPT !.op = "literal", !.code = code,
                            !.cur = Len(records) + 1, !.outcome = "ok"]
  /\ UNCHANGED monies

\* the caller assigns to the decimalPlaces field of a record that is not frozen
AssignDecimalPlaces(r, decimalPlaces) ==
  /\ r \in DOMAIN records
  /\ records' = [records EXCEPT ![r].decimalPlaces = decimalPlaces]
  /\ last' = [NoCall EXCEPT !.op = "assign", !.cur = r, !.outcome = "ok"]
  /\ UNCHANGED monies

\* the caller assigns to the code field of a record that is not frozen
AssignCode(r, code) ==
  /\ r \in DOMAIN records
  /\ records' = [records EXCEPT ![r].code = code]
  /\ last' = [NoCall EXCEPT !.op = "assign", !.cur = r, !.code = code,
                            !.outcome = "ok"]
  /\ UNCHANGED monies

RoundScaledToMinor(scaled, targetDecimalPlaces, mode) ==
  /\ ~roundScaledToMinorThrows(targetDecimalPlaces)
  /\ last' = [NoCall EXCEPT !.op = "roundScaledToMinor", !.scaled = scaled,
                            !.places = targetDecimalPlaces, !.mode = mode,
                            !.outcome = "ok",
                            !.val = roundScaledToMinor(scaled,
                                                       targetDecimalPlaces, mode)]
  /\ UNCHANGED <<records, monies>>

----------------------------------------------------------------------------
(* The numbers the calls below are given, each with what toString() and   *)
(* toPrecision(17) return for it and the exact value of the double.       *)

\* the number 12.34
N_12_34 ==
  [kind |-> "finite", neg |-> FALSE,
   str |-> <<"1", "2", ".", "3", "4">>,
   p17 |-> <<"1", "2", ".", "3", "4", "0", "0", "0", "0", "0", "0", "0", "0", "0", "0", "0", "0", "0">>,
   num |-> <<4375, 4648, 7751, 2825, 7996, 8479, 1452, 5789, 9998, 9999, 9999, 3399, 12>>,
   fdig |-> 48]

\* the number 12.345
N_12_345 ==
  [kind |-> "finite", neg |-> FALSE,
   str |-> <<"1", "2", ".", "3", "4", "5">>,
   p17 |-> <<"1", "2", ".", "3", "4", "5", "0", "0", "0", "0", "0", "0", "0", "0", "0", "0", "0", "1">>,
   num |-> <<3125, 820, 1184, 2840, 167, 8409, 4621, 9488, 63, 0, 0, 4500, 123>>,
   fdig |-> 49]

\* the number -12.345
N_neg_12_345 ==
  [kind |-> "finite", neg |-> TRUE,
   str |-> <<"-", "1", "2", ".", "3", "4", "5">>,
   p17 |-> <<"-", "1", "2", ".", "3", "4", "5", "0", "0", "0", "0", "0", "0", "0", "0", "0", "0", "0", "1">>,
   num |-> <<3125, 820, 1184, 2840, 167, 8409, 4621, 9488, 63, 0, 0, 4500, 123>>,
   fdig |-> 49]

\* the number 0.005
N_0_005 ==
  [kind |-> "finite", neg |-> FALSE,
   str |-> <<"0", ".", "0", "0", "5">>,
   p17 |-> <<"0", ".", "0", "0", "5", "0", "0", "0", "0", "0", "0", "0", "0", "0", "0", "0", "0", "0", "0", "0", "1">>,
   num |-> <<6875, 429, 5144, 8883, 1546, 6647, 8425, 5860, 4085, 4083, 10, 0, 0, 0, 50>>,
   fdig |-> 60]

\* the number -0.005
N_neg_0_005 ==
  [kind |-> "finite", neg |-> TRUE,
   str |-> <<"-", "0", ".", "0", "0", "5">>,
   p17 |-> <<"-", "0", ".", "0", "0", "5", "0", "0", "0", "0", "0", "0", "0", "0", "0", "0", "0", "0", "0", "0", "0", "1">>,
   num |-> <<6875, 429, 5144, 8883, 1546, 6647, 8425, 5860, 4085, 4083, 10, 0, 0, 0, 50>>,
   fdig |-> 60]

\* the number 2.5
N_2_5 ==
  [kind |-> "finite", neg |-> FALSE,
   str |-> <<"2", ".", "5">>,
   p17 |-> <<"2", ".", "5", "0", "0", "0", "0", "0", "0", "0", "0", "0", "0", "0", "0", "0", "0", "0">>,
   num |-> <<25>>,
   fdig |-> 1]

\* the number -2.5
N_neg_2_5 ==
  [kind |-> "finite", neg |-> TRUE,
   str |-> <<"-", "2", ".", "5">>,
   p17 |-> <<"-", "2", ".", "5", "0", "0", "0", "0", "0", "0", "0", "0", "0", "0", "0", "0", "0", "0", "0">>,
   num |-> <<25>>,
   fdig |-> 1]

\* the number 0.30000000000000004
N_0_30000000000000004 ==
  [kind |-> "finite", neg |-> FALSE,
   str |-> <<"0", ".", "3", "0", "0", "0", "0", "0", "0", "0", "0", "0", "0", "0", "0", "0", "0", "0", "4">>,
   p17 |-> <<"0", ".", "3", "0", "0", "0", "0", "0", "0", "0", "0", "0", "0", "0", "0", "0", "0", "0", "4">>,
   num |-> <<8125, 3632, 6672, 9452, 1616, 626, 9850, 8920, 4440, 0, 0, 0, 3000>>,
   fdig |-> 52]

\* the number 1e-7
N_1em7 ==
  [kind |-> "finite", neg |-> FALSE,
   str |-> <<"1", "e", "-", "7">>,
   p17 |-> <<"9", ".", "9", "9", "9", "9", "9", "9", "9", "9", "9", "9", "9", "9", "9", "9", "9", "5", "e", "-", "8">>,
   num |-> <<8125, 5507, 3664, 7819, 9080, 7236, 3938, 8561, 2586, 5886, 1182, 7481, 9954, 9999, 9999, 9999, 99>>,
   fdig |-> 73]

\* the number 1.5e-7
N_1_5em7 ==
  [kind |-> "finite", neg |-> FALSE,
   str |-> <<"1", ".", "5", "e", "-", "7">>,
   p17 |-> <<"1", ".", "4", "9", "9", "9", "9", "9", "9", "9", "9", "9", "9", "9", "9", "9", "9", "9", "e", "-", "7">>,
   num |-> <<1875, 2617, 4968, 7290, 6211, 8553, 9080, 8420, 8802, 8293, 7738, 2216, 9321, 9999, 9999, 9999, 1499>>,
   fdig |-> 74]

\* the number 1e-8
N_1em8 ==
  [kind |-> "finite", neg |-> FALSE,
   str |-> <<"1", "e", "-", "8">>,
   p17 |-> <<"1", ".", "0", "0", "0", "0", "0", "0", "0", "0", "0", "0", "0", "0", "0", "0", "0", "0", "e", "-", "8">>,
   num |-> <<3125, 195, 2395, 6314, 6104, 8783, 892, 6634, 7532, 4726, 128, 6083, 9225, 20, 0, 0, 0, 100>>,
   fdig |-> 78]

\* the number 1e-21
N_1em21 ==
  [kind |-> "finite", neg |-> FALSE,
   str |-> <<"1", "e", "-", "2", "1">>,
   p17 |-> <<"9", ".", "9", "9", "9", "9", "9", "9", "9", "9", "9", "9", "9", "9", "9", "9", "9", "1", "e", "-", "2", "2">>,
   num |-> <<4375, 4648, 9626, 8567, 5659, 1446, 9965, 3760, 9982, 5935, 4179, 6910, 3075, 6755, 4511, 2993, 3967, 6371, 2789, 4522, 7537, 9990, 9999, 9999, 9999, 9>>,
   fdig |-> 122]

\* the number 90071992547409.9
N_90071992547409_9 ==
  [kind |-> "finite", neg |-> FALSE,
   str |-> <<"9", "0", "0", "7", "1", "9", "9", "2", "5", "4", "7", "4", "0", "9", ".", "9">>,
   p17 |-> <<"9", "0", "0", "7", "1", "9", "9", "2", "5", "4", "7", "4", "0", "9", ".", "9", "0", "6">>,
   num |-> <<625, 4099, 2547, 7199, 900>>,
   fdig |-> 5]

\* the number 90071992.5474099
N_90071992_5474099 ==
  [kind |-> "finite", neg |-> FALSE,
   str |-> <<"9", "0", "0", "7", "1", "9", "9", "2", ".", "5", "4", "7", "4", "0", "9", "9">>,
   p17 |-> <<"9", "0", "0", "7", "1", "9", "9", "2", ".", "5", "4", "7", "4", "0", "9", "9", "0", "7">>,
   num |-> <<625, 3164, 5549, 8337, 9069, 7409, 9254, 719, 90>>,
   fdig |-> 26]

\* the number 90071992.54740992
N_90071992_54740992 ==
  [kind |-> "finite", neg |-> FALSE,
   str |-> <<"9", "0", "0", "7", "1", "9", "9", "2", ".", "5", "4", "7", "4", "0", "9", "9", "2">>,
   p17 |-> <<"9", "0", "0", "7", "1", "9", "9", "2", ".", "5", "4", "7", "4", "0", "9", "9", "2", "2">>,
   num |-> <<625, 3164, 3674, 8845, 9921, 4740, 9925, 71, 9>>,
   fdig |-> 25]

\* the number 1.0000000000001
N_1_0000000000001 ==
  [kind |-> "finite", neg |-> FALSE,
   str |-> <<"1", ".", "0", "0", "0", "0", "0", "0", "0", "0", "0", "0", "0", "0", "1">>,
   p17 |-> <<"1", ".", "0", "0", "0", "0", "0", "0", "0", "0", "0", "0", "0", "0", "0", "9", "9", "9">>,
   num |-> <<8125, 7382, 1281, 6850, 3812, 886, 6264, 7221, 9200, 99, 0, 0, 1000>>,
   fdig |-> 51]

\* the number 0.01
N_0_01 ==
  [kind |-> "finite", neg |-> FALSE,
   str |-> <<"0", ".", "0", "1">>,
   p17 |-> <<"0", ".", "0", "1", "0", "0", "0", "0", "0", "0", "0", "0", "0", "0", "0", "0", "0", "0", "0", "0">>,
   num |-> <<9375, 8085, 7028, 3776, 4309, 1329, 1685, 1172, 6817, 816, 2, 0, 0, 0, 10>>,
   fdig |-> 59]

\* the number 90071992547409.92
N_90071992547409_92 ==
  [kind |-> "finite", neg |-> FALSE,
   str |-> <<"9", "0", "0", "7", "1", "9", "9", "2", "5", "4", "7", "4", "0", "9", ".", "9", "2">>,
   p17 |-> <<"9", "0", "0", "7", "1", "9", "9", "2", "5", "4", "7", "4", "0", "9", ".", "9", "2", "2">>,
   num |-> <<1875, 992, 5474, 1992, 9007>>,
   fdig |-> 6]

\* the number 1.005
N_1_005 ==
  [kind |-> "finite", neg |-> FALSE,
   str |-> <<"1", ".", "0", "0", "5">>,
   p17 |-> <<"1", ".", "0", "0", "4", "9", "9", "9", "9", "9", "9", "9", "9", "9", "9", "9", "9", "9">>,
   num |-> <<8125, 8632, 1359, 1933, 9721, 5984, 8963, 4185, 9893, 9999, 9999, 4999, 100>>,
   fdig |-> 50]

\* the number 1.3892503971337602
N_1_3892503971337602 ==
  [kind |-> "finite", neg |-> FALSE,
   str |-> <<"1", ".", "3", "8", "9", "2", "5", "0", "3", "9", "7", "1", "3", "3", "7", "6", "0", "2">>,
   p17 |-> <<"1", ".", "3", "8", "9", "2", "5", "0", "3", "9", "7", "1", "3", "3", "7", "6", "0", "2">>,
   num |-> <<1875, 6367, 5827, 5078, 697, 1911, 7577, 3450, 195, 3376, 3971, 9250, 138>>,
   fdig |-> 50]

\* the number 0.5
N_0_5 ==
  [kind |-> "finite", neg |-> FALSE,
   str |-> <<"0", ".", "5">>,
   p17 |-> <<"0", ".", "5", "0", "0", "0", "0", "0", "0", "0", "0", "0", "0", "0", "0", "0", "0", "0", "0">>,
   num |-> <<5>>,
   fdig |-> 1]

\* the number 12.5
N_12_5 ==
  [kind |-> "finite", neg |-> FALSE,
   str |-> <<"1", "2", ".", "5">>,
   p17 |-> <<"1", "2", ".", "5", "0", "0", "0", "0", "0", "0", "0", "0", "0", "0", "0", "0", "0", "0">>,
   num |-> <<125>>,
   fdig |-> 1]

\* the number 1.5
N_1_5 ==
  [kind |-> "finite", neg |-> FALSE,
   str |-> <<"1", ".", "5">>,
   p17 |-> <<"1", ".", "5", "0", "0", "0", "0", "0", "0", "0", "0", "0", "0", "0", "0", "0", "0", "0">>,
   num |-> <<15>>,
   fdig |-> 1]

\* the number 0.02
N_0_02 ==
  [kind |-> "finite", neg |-> FALSE,
   str |-> <<"0", ".", "0", "2">>,
   p17 |-> <<"0", ".", "0", "2", "0", "0", "0", "0", "0", "0", "0", "0", "0", "0", "0", "0", "0", "0", "0", "0">>,
   num |-> <<1875, 7617, 3405, 8755, 8861, 265, 4337, 4234, 3363, 4163, 0, 0, 0, 0, 2>>,
   fdig |-> 58]

\* the number 0.05
N_0_05 ==
  [kind |-> "finite", neg |-> FALSE,
   str |-> <<"0", ".", "0", "5">>,
   p17 |-> <<"0", ".", "0", "5", "0", "0", "0", "0", "0", "0", "0", "0", "0", "0", "0", "0", "0", "0", "0", "3">>,
   num |-> <<8125, 507, 227, 7917, 590, 1351, 6289, 5615, 5557, 277, 0, 0, 0, 500>>,
   fdig |-> 56]

\* the number 0.25
N_0_25 ==
  [kind |-> "finite", neg |-> FALSE,
   str |-> <<"0", ".", "2", "5">>,
   p17 |-> <<"0", ".", "2", "5", "0", "0", "0", "0", "0", "0", "0", "0", "0", "0", "0", "0", "0", "0", "0">>,
   num |-> <<25>>,
   fdig |-> 2]

\* the number 0.001
N_0_001 ==
  [kind |-> "finite", neg |-> FALSE,
   str |-> <<"0", ".", "0", "0", "1">>,
   p17 |-> <<"0", ".", "0", "0", "1", "0", "0", "0", "0", "0", "0", "0", "0", "0", "0", "0", "0", "0", "0", "0", "0">>,
   num |-> <<9375, 8085, 7028, 3776, 4309, 1329, 1685, 1172, 6817, 816, 2, 0, 0, 0, 10>>,
   fdig |-> 60]

\* the number 9007199254740991
N_MAX_SAFE_INTEGER ==
  [kind |-> "finite", neg |-> FALSE,
   str |-> <<"9", "0", "0", "7", "1", "9", "9", "2", "5", "4", "7", "4", "0", "9", "9", "1">>,
   p17 |-> <<"9", "0", "0", "7", "1", "9", "9", "2", "5", "4", "7", "4", "0", "9", "9", "1", ".", "0">>,
   num |-> <<991, 5474, 1992, 9007>>,
   fdig |-> 0]

\* the number 9007199254740992
N_2_pow_53 ==
  [kind |-> "finite", neg |-> FALSE,
   str |-> <<"9", "0", "0", "7", "1", "9", "9", "2", "5", "4", "7", "4", "0", "9", "9", "2">>,
   p17 |-> <<"9", "0", "0", "7", "1", "9", "9", "2", "5", "4", "7", "4", "0", "9", "9", "2", ".", "0">>,
   num |-> <<992, 5474, 1992, 9007>>,
   fdig |-> 0]

\* the number -9007199254740992
N_neg_2_pow_53 ==
  [kind |-> "finite", neg |-> TRUE,
   str |-> <<"-", "9", "0", "0", "7", "1", "9", "9", "2", "5", "4", "7", "4", "0", "9", "9", "2">>,
   p17 |-> <<"-", "9", "0", "0", "7", "1", "9", "9", "2", "5", "4", "7", "4", "0", "9", "9", "2", ".", "0">>,
   num |-> <<992, 5474, 1992, 9007>>,
   fdig |-> 0]


\* the number 9007199254740994
N_9007199254740994 ==
  [kind |-> "finite", neg |-> FALSE,
   str |-> <<"9", "0", "0", "7", "1", "9", "9", "2", "5", "4", "7", "4", "0", "9", "9", "4">>,
   p17 |-> <<"9", "0", "0", "7", "1", "9", "9", "2", "5", "4", "7", "4", "0", "9", "9", "4", ".", "0">>,
   num |-> <<994, 5474, 1992, 9007>>,
   fdig |-> 0]

\* the number 9007199254740990
N_9007199254740990 ==
  [kind |-> "finite", neg |-> FALSE,
   str |-> <<"9", "0", "0", "7", "1", "9", "9", "2", "5", "4", "7", "4", "0", "9", "9", "0">>,
   p17 |-> <<"9", "0", "0", "7", "1", "9", "9", "2", "5", "4", "7", "4", "0", "9", "9", "0", ".", "0">>,
   num |-> <<990, 5474, 1992, 9007>>,
   fdig |-> 0]

\* the number -9007199254740991
N_neg_MAX_SAFE_INTEGER ==
  [kind |-> "finite", neg |-> TRUE,
   str |-> <<"-", "9", "0", "0", "7", "1", "9", "9", "2", "5", "4", "7", "4", "0", "9", "9", "1">>,
   p17 |-> <<"-", "9", "0", "0", "7", "1", "9", "9", "2", "5", "4", "7", "4", "0", "9", "9", "1", ".", "0">>,
   num |-> <<991, 5474, 1992, 9007>>,
   fdig |-> 0]

----------------------------------------------------------------------------
(* Bounds and the inputs of the calls *)

MaxMonies == 2

MaxAmount == 3

MaxOperand == 1

MaxShareAmount == 7

MaxParts == 4

MaxQuotient == 2

MaxDefined == 2

\* RoundingMode, and the option left out
Modes == {"floor", "ceil", "trunc", "round"}

ModeOptions == Modes \cup {"undefined"}

\* the sequences of at most two positions of Money instances
PositionLists ==
  {<<>>} \cup {<<a>> : a \in DOMAIN monies}
         \cup {<<a, b>> : a \in DOMAIN monies, b \in DOMAIN monies}

----------------------------------------------------------------------------
(* Spec: any sequence of calls, starting with no Money, as long as fewer   *)
(* than MaxMonies instances exist.                                         *)

Room == Len(monies) < MaxMonies

Init == records = BuiltinRecords /\ monies = <<>> /\ last = NoCall

Next ==
  \/ \E v \in {N_12_345, N_90071992547409_92}, strict \in BOOLEAN :
       Room /\ FromNumber(USD, v, "floor", strict)
  \/ \E c \in {USD, EUR}, n \in {NumOfInt(100), N_1_5, N_2_pow_53} :
       Room /\ FromMinor(c, n)
  \/ \E a \in DOMAIN monies, b \in DOMAIN monies : Room /\ Add(a, b)
  \/ \E a \in DOMAIN monies, b \in DOMAIN monies : Room /\ Subtract(a, b)
  \/ \E items \in PositionLists : Room /\ Sum(items)
  \/ \E a \in DOMAIN monies, b \in DOMAIN monies : Room /\ Equals(a, b)
  \/ \E a \in DOMAIN monies, b \in DOMAIN monies : Room /\ Compare(a, b)
  \/ \E a \in DOMAIN monies, b \in DOMAIN monies : Room /\ LessThan(a, b)
  \/ \E a \in DOMAIN monies, b \in DOMAIN monies : Room /\ GreaterThan(a, b)
  \/ \E a \in DOMAIN monies, b \in DOMAIN monies : Room /\ LessThanOrEqual(a, b)
  \/ \E a \in DOMAIN monies, b \in DOMAIN monies : Room /\ GreaterThanOrEqual(a, b)
  \/ \E m \in DOMAIN monies, parts \in {NumOfInt(0), NumOfInt(2)} :
       Room /\ Allocate(m, parts)
  \/ \E m \in DOMAIN monies, rate \in {N_1_005, NumOfInt(0)} :
       Room /\ Convert(m, EUR, rate, "undefined")
  \/ \E m \in DOMAIN monies, increment \in {N_0_05, N_0_001} :
       Room /\ RoundTo(m, increment, "undefined")
  \/ \E m \in DOMAIN monies, percent \in {N_12_5, NumNaN} :
       Room /\ PercentOf(m, percent, "undefined")
  \/ \E m \in DOMAIN monies : Room /\ IncrementByPercent(m, N_12_5, "undefined")
  \/ \E m \in DOMAIN monies : Room /\ DecrementByPercent(m, N_12_5, "ceil")

Spec == Init /\ [][Next]_vars

----------------------------------------------------------------------------
(* SpecArith: one binary or n-ary call on two Money instances made by      *)
(* fromMinor, over the built-in records and two records made by            *)
(* defineCurrency: a second USD with 2 decimal places and a USD with 3.    *)

ArithRecords ==
  BuiltinRecords \o <<defineCurrency("USD", NumOfInt(2)),
                      defineCurrency("USD", NumOfInt(3))>>

ArithCurrencies == {USD, EUR, Len(BuiltinRecords) + 1, Len(BuiltinRecords) + 2}

ArithMinors ==
  {NumOfInt(k) : k \in (-MaxOperand)..MaxOperand}
  \cup {N_9007199254740990, N_MAX_SAFE_INTEGER, N_neg_MAX_SAFE_INTEGER, N_2_pow_53}

InitArith ==
  /\ records = ArithRecords
  /\ \E c1 \in ArithCurrencies, c2 \in ArithCurrencies,
        n1 \in ArithMinors, n2 \in ArithMinors :
       monies = fromMinor(c1, n1).out \o fromMinor(c2, n2).out
  /\ last = NoCall

Fresh == last.op = "none"

NextArith ==
  \/ Fresh /\ Add(1, 2)
  \/ Fresh /\ Subtract(1, 2)
  \/ \E items \in {<<>>, <<1, 2>>, <<1, 1, 2>>, <<2>>} : Fresh /\ Sum(items)
  \/ Fresh /\ Equals(1, 2)
  \/ Fresh /\ Compare(1, 2)
  \/ Fresh /\ LessThan(1, 2)
  \/ Fresh /\ GreaterThan(1, 2)
  \/ Fresh /\ LessThanOrEqual(1, 2)
  \/ Fresh /\ GreaterThanOrEqual(1, 2)

SpecArith == InitArith /\ [][NextArith]_vars

\* SpecAddTwice: add(a, b), then add(b, a) on the same two Money instances.
NextAddTwice ==
  \/ Fresh /\ Add(1, 2)
  \/ last.op = "add" /\ last.args = <<1, 2>> /\ Add(2, 1)

SpecAddTwice == InitArith /\ [][NextAddTwice]_vars

\* SpecCompare: compare(a, b), then compare(b, a) or one of the five
\* predicates on the same two Money instances.
NextCompare ==
  \/ Fresh /\ Compare(1, 2)
  \/ last.op = "compare" /\ last.args = <<1, 2>> /\ Compare(2, 1)
  \/ last.op = "compare" /\ last.args = <<1, 2>> /\ Equals(1, 2)
  \/ last.op = "compare" /\ last.args = <<1, 2>> /\ LessThan(1, 2)
  \/ last.op = "compare" /\ last.args = <<1, 2>> /\ GreaterThan(1, 2)
  \/ last.op = "compare" /\ last.args = <<1, 2>> /\ LessThanOrEqual(1, 2)
  \/ last.op = "compare" /\ last.args = <<1, 2>> /\ GreaterThanOrEqual(1, 2)

SpecCompare == InitArith /\ [][NextCompare]_vars

----------------------------------------------------------------------------
(* SpecAllocate: allocate on a Money made by fromMinor, then sum on the    *)
(* shares it returned.                                                     *)

ShareMinors ==
  {NumOfInt(k) : k \in (-MaxShareAmount)..MaxShareAmount}
  \cup {NumOfInt(1000), NumOfInt(-1000), N_MAX_SAFE_INTEGER,
        N_neg_MAX_SAFE_INTEGER, N_2_pow_53, N_neg_2_pow_53}

PartCounts ==
  {NumOfInt(k) : k \in (-1)..MaxParts}
  \cup {N_1_5, N_2_pow_53, N_MAX_SAFE_INTEGER, NumNaN, NumInfinity,
        NumNegInfinity}

InitAllocate ==
  /\ records = BuiltinRecords
  /\ \E c \in {USD, JPY}, n \in ShareMinors : monies = fromMinor(c, n).out
  /\ last = NoCall

NextAllocate ==
  \/ \E parts \in PartCounts : Fresh /\ Allocate(1, parts)
  \/ last.op = "allocate" /\ last.outcome = "ok" /\ Sum(last.res)

SpecAllocate == InitAllocate /\ [][NextAllocate]_vars

----------------------------------------------------------------------------
(* SpecFromNumber: one call of fromNumber.                                 *)

FromNumberValues ==
  {NumOfInt(0), NumOfInt(100), NumOfInt(-MaxAmount), N_12_34, N_12_345,
   N_neg_12_345, N_0_005, N_neg_0_005, N_2_5, N_neg_2_5,
   N_0_30000000000000004, N_1em7, N_1_5em7, N_1em8, N_1em21,
   N_90071992547409_92, N_90071992547409_9, N_90071992_5474099,
   N_90071992_54740992, N_MAX_SAFE_INTEGER, N_2_pow_53,
   NumNaN, NumInfinity, NumNegInfinity}

InitFromNumber == records = BuiltinRecords /\ monies = <<>> /\ last = NoCall

NextFromNumber ==
  \E c \in DOMAIN records, v \in FromNumberValues, rounding \in ModeOptions,
     strict \in BOOLEAN :
    Fresh /\ FromNumber(c, v, rounding, strict)

SpecFromNumber == InitFromNumber /\ [][NextFromNumber]_vars

----------------------------------------------------------------------------
(* SpecEngine: one call of the rounding engine, on the multiples of the    *)
(* divisor, their neighbours and the values around the midpoints.          *)

EnginePlaces == {0, 2, 8, INTERNAL_PRECISION - 1, INTERNAL_PRECISION}

EngineRemainders(divisor) ==
  LET half == BigDiv(divisor, BigOf(2))
  IN  {r \in {BigZero, BigOf(1), BigSub(half, BigOf(1)), half,
              BigAdd(half, BigOf(1)), BigSub(divisor, BigOf(1))} :
         BigGe(r, BigZero) /\ BigLt(r, divisor)}

EngineScaled(dp) ==
  LET divisor == ScaleDivisor(dp)
      pos == {BigAdd(BigMul(BigOf(q), divisor), r) :
                q \in 0..MaxQuotient, r \in EngineRemainders(divisor)}
  IN  pos \cup {BigNeg(x) : x \in pos}

InitEngine == records = BuiltinRecords /\ monies = <<>> /\ last = NoCall

NextEngine ==
  \E dp \in EnginePlaces, mode \in Modes :
    \E scaled \in EngineScaled(dp) :
      Fresh /\ RoundScaledToMinor(scaled, dp, mode)

SpecEngine == InitEngine /\ [][NextEngine]_vars

----------------------------------------------------------------------------
(* SpecRounding: one rounding call (fromNumber, convert, a percent         *)
(* operation or roundTo) on a Money made by fromMinor.                     *)

RoundingMinors ==
  {NumOfInt(k) : k \in (-MaxAmount)..MaxAmount} \cup {NumOfInt(100), NumOfInt(-100)}

RoundingModes == {"undefined", "round", "floor"}

InitRounding ==
  /\ records = BuiltinRecords
  /\ \E c \in {USD, JPY}, n \in RoundingMinors : monies = fromMinor(c, n).out
  /\ last = NoCall

NextRounding ==
  \/ \E c \in {USD, JPY},
        v \in {N_12_34, N_12_345, N_0_005, N_neg_0_005, N_2_5, N_neg_2_5},
        rounding \in RoundingModes :
       Fresh /\ FromNumber(c, v, rounding, FALSE)
  \/ \E c \in {EUR, JPY}, rate \in {N_1_005, N_1_3892503971337602, N_0_5},
        rounding \in RoundingModes :
       Fresh /\ Convert(1, c, rate, rounding)
  \/ \E increment \in {N_0_02, N_0_05, N_0_25}, mode \in RoundingModes :
       Fresh /\ RoundTo(1, increment, mode)
  \/ \E percent \in {NumOfInt(50), N_12_5}, rounding \in RoundingModes :
       Fresh /\ PercentOf(1, percent, rounding)
  \/ \E percent \in {NumOfInt(50), N_12_5}, rounding \in RoundingModes :
       Fresh /\ IncrementByPercent(1, percent, rounding)
  \/ \E percent \in {NumOfInt(50), N_12_5}, rounding \in RoundingModes :
       Fresh /\ DecrementByPercent(1, percent, rounding)

SpecRounding == InitRounding /\ [][NextRounding]_vars

----------------------------------------------------------------------------
(* The claims *)

\* is the minor amount of a Money inside the safe-integer envelope
InEnvelope(minor) == BigLe(BigAbs(minor), MAX_SAFE_INTEGER)

\* C1: after any sequence of calls, every Money that exists has a minor
\* amount m with -(2^53 - 1) <= m <= 2^53 - 1 (a call whose result would lie
\* outside fails and adds no Money).
C1_EveryMoneyInEnvelope ==
  \A i \in DOMAIN monies : InEnvelope(monies[i].minor)

\* C1, the case: fromMinor has returned a Money whose minor amount is 2^53.
C1_FromMinorOutside ==
  /\ last.op = "fromMinor" /\ last.outcome = "ok"
  /\ monies[last.res[1]].minor = NumToBig(N_2_pow_53)

\* C2: sum(allocate(m, n)) is m: the call of sum on the shares of m returns a
\* Money with the minor amount and the currency of m.
C2_SumOfSharesIsMoney ==
  last.op = "sum" =>
    /\ last.outcome = "ok"
    /\ Len(last.res) = 1
    /\ monies[last.res[1]] = monies[1]

\* C2, the case: the sum of the shares of a Money of 2^53 minor units failed.
C2_SumOfSharesFails ==
  /\ last.op = "sum" /\ last.outcome = "ResultTooLarge"
  /\ ~InEnvelope(monies[1].minor)

\* C3: allocate(m, n) returns n shares in the currency of m; with q the
\* quotient of m.minor by n truncated toward zero (the q with |m - n*q| < n
\* and m - n*q zero or of the sign of m) and r = m.minor - n*q, the first |r|
\* shares are q + sign(r) and the others q; two shares differ by at most one
\* and no share has the sign opposite to m.
C3_AllocateShares ==
  (last.op = "allocate" /\ last.outcome = "ok") =>
    LET m        == monies[last.args[1]]
        n        == Len(last.res)
        share(i) == monies[last.res[i]]
        q        == share(n).minor
        r        == BigSub(m.minor, BigMul(BigOf(n), q))
        extra    == MagValue(BigAbs(r).mag)
        unit     == IF BigIsNeg(r) THEN BigOf(-1) ELSE BigOf(1)
    IN  /\ n >= 1
        /\ BigOf(n) = NumToBig(last.num)
        /\ BigLt(BigAbs(r), BigOf(n))
        /\ BigIsZero(r) \/ (BigIsNeg(r) <=> BigIsNeg(m.minor))
        /\ \A i \in 1..n : share(i).currency = m.currency
        /\ \A i \in 1..n :
             share(i).minor = IF i <= extra THEN BigAdd(q, unit) ELSE q
        /\ \A i \in 1..n, j \in 1..n :
             BigLe(BigAbs(BigSub(share(i).minor, share(j).minor)), BigOf(1))
        /\ \A i \in 1..n :
             /\ ~(BigIsNeg(share(i).minor) /\ BigGt(m.minor, BigZero))
             /\ ~(BigGt(share(i).minor, BigZero) /\ BigIsNeg(m.minor))

\* C3, the case: -1000 split 3 ways gave [-334, -333, -333].
C3_NegativeUnevenSplit ==
  /\ last.op = "allocate" /\ last.outcome = "ok"
  /\ monies[1].minor = BigOf(-1000)
  /\ [i \in 1..Len(last.res) |-> monies[last.res[i]].minor]
       = <<BigOf(-334), BigOf(-333), BigOf(-333)>>

CombiningOps ==
  {"add", "subtract", "sum", "equals", "compare", "lessThan", "greaterThan",
   "lessThanOrEqual", "greaterThanOrEqual"}

\* do the records of two Money instances differ in code or in decimalPlaces
RecordsDiffer(a, b) ==
  \/ records[monies[a].currency].code # records[monies[b].currency].code
  \/ records[monies[a].currency].decimalPlaces
       # records[monies[b].currency].decimalPlaces

\* C4: a combining or comparing call fails with CurrencyMismatch exactly when
\* the record of some operand differs from the record of the first in code or
\* in decimalPlaces, whatever the amounts are.
C4_MismatchIffRecordsDiffer ==
  (last.op \in CombiningOps) =>
    (last.outcome = "CurrencyMismatch"
       <=> \E k \in DOMAIN last.args : RecordsDiffer(last.args[1], last.args[k]))

\* C4, the case: add on two amounts of 2^53 - 1 whose records have the same
\* code and different decimalPlaces failed with CurrencyMismatch, not with
\* ResultTooLarge.
C4_MismatchBeforeOverflow ==
  /\ last.op = "add" /\ last.outcome = "CurrencyMismatch"
  /\ monies[1].minor = MAX_SAFE_INTEGER /\ monies[2].minor = MAX_SAFE_INTEGER
  /\ records[monies[1].currency].code = records[monies[2].currency].code
  /\ monies[1].currency # monies[2].currency

\* C5: for a and b of equivalent currency, add and subtract fail with
\* ResultTooLarge exactly when the magnitude of a.minor + b.minor (a.minor -
\* b.minor) exceeds 2^53 - 1, and otherwise return one new Money in the
\* currency of a with exactly that minor amount.
C5_AddSubtractExact ==
  (last.op \in {"add", "subtract"} /\ ~RecordsDiffer(1, 2)) =>
    LET exact == IF last.op = "add"
                 THEN BigAdd(monies[1].minor, monies[2].minor)
                 ELSE BigSub(monies[1].minor, monies[2].minor)
    IN  IF InEnvelope(exact)
        THEN /\ last.outcome = "ok"
             /\ last.res = <<3>>
             /\ monies[3] = NewMoney(exact, monies[1].currency)
        ELSE last.outcome = "ResultTooLarge" /\ last.res = <<>>

\* C5, the case: add(MAX_SAFE - 1, 1) returned MAX_SAFE.
C5_AddUpToLimit ==
  /\ last.op = "add" /\ last.outcome = "ok"
  /\ monies[1].minor = BigSub(MAX_SAFE_INTEGER, BigOf(1))
  /\ monies[2].minor = BigOf(1)
  /\ monies[last.res[1]].minor = MAX_SAFE_INTEGER

\* C6: no call changes an existing Money or record: after every call each
\* Money that existed has the minor amount and the currency it had, and each
\* Money the call returned is a new instance.
C6_ExistingMoneyUnchanged ==
  [][/\ \A i \in DOMAIN monies : i \in DOMAIN monies' /\ monies'[i] = monies[i]
     /\ \A k \in DOMAIN last'.res :
          last'.res[k] \in DOMAIN monies' /\ last'.res[k] \notin DOMAIN monies
     /\ records' = records]_vars

\* C6, the case: convert returned a second Money with another amount and the
\* first one is still 100 minor units.
C6_ConvertReturnedNew ==
  /\ last.op = "convert" /\ last.outcome = "ok"
  /\ last.args = <<1>> /\ last.res = <<2>>
  /\ monies[1].minor = BigOf(100)
  /\ monies[2].minor = BigOf(101)

\* the decimal that n.toString() writes, as coef / 10^places (places may be
\* negative), without the sign
WrittenDecimal(n) ==
  LET unsigned == IF n.neg THEN Tail(n.str) ELSE n.str
      eIndex   == IndexOf(unsigned, {"e"})
      mantissa == IF eIndex = 0 THEN unsigned ELSE SliceTo(unsigned, eIndex - 1)
      exponent == IF eIndex = 0 THEN 0
                  ELSE ParseInt(SliceFrom(unsigned, eIndex + 1))
      dotIndex == IndexOf(mantissa, {"."})
      digits   == IF dotIndex = 0 THEN mantissa
                  ELSE SliceTo(mantissa, dotIndex - 1)
                       \o SliceFrom(mantissa, dotIndex + 1)
      fraction == IF dotIndex = 0 THEN 0 ELSE Len(mantissa) - dotIndex
  IN  [coef |-> BigOfString(digits), places |-> fraction - exponent]

\* is n * 10^dp an integer
IsRepresentable(n, dp) ==
  \/ WrittenDecimal(n).places <= dp
  \/ BigIsZero(BigRem(WrittenDecimal(n).coef,
                      BigPow10(WrittenDecimal(n).places - dp)))

\* n * 10^dp, for a representable n
ExactMinor(n, dp) ==
  LET magnitude == IF WrittenDecimal(n).places <= dp
                   THEN BigMul(WrittenDecimal(n).coef,
                               BigPow10(dp - WrittenDecimal(n).places))
                   ELSE BigDiv(WrittenDecimal(n).coef,
                               BigPow10(WrittenDecimal(n).places - dp))
  IN  IF n.neg THEN BigNeg(magnitude) ELSE magnitude

\* C7: fromNumber(c, v, {strict: true}), for a finite v within the range
\* fromNumber accepts, returns a Money exactly when v * 10^decimalPlaces is an
\* integer, with that integer as the minor amount under every rounding
\* option, and fails with PrecisionLoss for every other v.
C7_StrictIffRepresentable ==
  (/\ last.op = "fromNumber" /\ last.strict
   /\ NumIsFinite(last.num)
   /\ ~EstimateExceedsSafe(last.num, records[last.cur].decimalPlaces)) =>
    IF IsRepresentable(last.num, records[last.cur].decimalPlaces)
    THEN /\ last.outcome = "ok"
         /\ Len(last.res) = 1
         /\ monies[last.res[1]]
              = NewMoney(ExactMinor(last.num, records[last.cur].decimalPlaces),
                         last.cur)
    ELSE last.outcome = "PrecisionLoss" /\ last.res = <<>>

\* C7, the case: the strict fromNumber(BTC, 1e-7), ten satoshi, failed with
\* PrecisionLoss.
C7_TenSatoshiRejected ==
  /\ last.op = "fromNumber" /\ last.strict
  /\ last.cur = BTC /\ last.num = N_1em7
  /\ last.outcome = "PrecisionLoss"

\* C8: roundScaledToMinor(scaled, dp, mode) with D = 10^(20 - dp) returns
\* scaled / D when D divides scaled, under every mode; otherwise floor returns
\* the greatest integer below scaled / D, ceil the least integer above it and
\* trunc the integer next to it toward zero, for either sign of scaled.
C8_DirectedModes ==
  (last.op = "roundScaledToMinor" /\ last.places <= INTERNAL_PRECISION) =>
    LET D     == BigPow10(INTERNAL_PRECISION - last.places)
        below == BigMul(BigSub(last.val, BigOf(1)), D)
        at    == BigMul(last.val, D)
        above == BigMul(BigAdd(last.val, BigOf(1)), D)
    IN  IF BigIsZero(BigRem(last.scaled, D)) THEN at = last.scaled
        ELSE /\ last.mode = "floor" =>
                  BigLt(at, last.scaled) /\ BigLt(last.scaled, above)
             /\ last.mode = "ceil" =>
                  BigLt(below, last.scaled) /\ BigLt(last.scaled, at)
             /\ last.mode = "trunc" =>
                  /\ BigLe(BigAbs(at), BigAbs(last.scaled))
                  /\ BigLt(BigAbs(last.scaled), BigAdd(BigAbs(at), D))
                  /\ BigIsZero(last.val)
                       \/ (BigIsNeg(last.val) <=> BigIsNeg(last.scaled))

\* C8, the case: floor of -0.0100...01 (20 places) to 2 places gave -2.
C8_FloorOfNegative ==
  /\ last.op = "roundScaledToMinor" /\ last.mode = "floor" /\ last.places = 2
  /\ last.scaled = BigNeg(BigAdd(BigPow10(INTERNAL_PRECISION - 2), BigOf(1)))
  /\ last.val = BigOf(-2)

EngineOps ==
  {"fromNumber", "convert", "percentOf", "incrementByPercent",
   "decrementByPercent"}

\* the value the last call rounded: the scaled value it handed to the
\* rounding engine, or for roundTo the minor amount of its operand
LastValue ==
  CASE last.op = "fromNumber" -> fromNumberScaledValue(last.num)
    [] last.op = "convert" -> convertRawProduct(monies[1], last.num)
    [] last.op = "percentOf" -> percentOfRaw(monies[1], last.num)
    [] last.op = "incrementByPercent" -> incrementByPercentRaw(monies[1], last.num)
    [] last.op = "decrementByPercent" -> decrementByPercentRaw(monies[1], last.num)
    [] OTHER -> monies[1].minor

\* what the last call rounded to a multiple of: one minor unit of the result
\* at the internal scale, or for roundTo the increment in minor units
LastUnit ==
  CASE last.op \in {"fromNumber", "convert"} ->
         BigPow10(INTERNAL_PRECISION - records[last.cur].decimalPlaces)
    [] last.op = "roundTo" ->
         BigDiv(fromNumberScaledValue(last.num),
                BigPow10(INTERNAL_PRECISION
                         - records[monies[1].currency].decimalPlaces))
    [] OTHER ->
         BigPow10(INTERNAL_PRECISION - records[monies[1].currency].decimalPlaces)

\* the result of the last call in the unit of LastValue
LastRounded ==
  IF last.op = "roundTo" THEN monies[last.res[1]].minor
  ELSE BigMul(monies[last.res[1]].minor, LastUnit)

\* the last call rounded under the default mode and returned
DefaultRounded(ops) ==
  last.op \in ops /\ last.outcome = "ok" /\ RoundingOrDefault(last.mode) = "round"

IsMidpoint(value, unit) ==
  BigMul(BigOf(2), BigAbs(BigRem(value, unit))) = unit

----------------------------------------------------------------------------
(* SpecRoundTo: roundTo on a Money made by fromMinor, then roundTo again   *)
(* on its result with the same increment and mode.                         *)

RoundToMinors ==
  {NumOfInt(k) : k \in (-MaxAmount)..MaxAmount}
  \cup {NumOfInt(110), NumOfInt(-110), N_MAX_SAFE_INTEGER,
        N_neg_MAX_SAFE_INTEGER, N_2_pow_53}

RoundToIncrements ==
  {N_0_02, N_0_05, N_0_25, NumOfInt(1), N_0_001, N_1em7, N_1em21,
   NumOfInt(0), NumOfInt(-1), NumNaN, NumInfinity, NumNegInfinity}

InitRoundTo ==
  /\ records = BuiltinRecords
  /\ \E c \in {USD, JPY, BTC}, n \in RoundToMinors : monies = fromMinor(c, n).out
  /\ last = NoCall

NextRoundTo ==
  \/ \E increment \in RoundToIncrements, mode \in ModeOptions :
       Fresh /\ RoundTo(1, increment, mode)
  \/ /\ last.op = "roundTo" /\ last.outcome = "ok" /\ last.args = <<1>>
     /\ RoundTo(2, last.num, last.mode)

SpecRoundTo == InitRoundTo /\ [][NextRoundTo]_vars

\* the decimal that n.toString() writes at the internal scale, digits past
\* the twentieth dropped, without the sign
WrittenScaled(n) ==
  IF WrittenDecimal(n).places <= INTERNAL_PRECISION
  THEN BigMul(WrittenDecimal(n).coef,
              BigPow10(INTERNAL_PRECISION - WrittenDecimal(n).places))
  ELSE BigDiv(WrittenDecimal(n).coef,
              BigPow10(WrittenDecimal(n).places - INTERNAL_PRECISION))

\* is n a finite number above 0
IsPositive(n) == NumIsFinite(n) /\ ~NumLeInt(n, 0)

\* the number of minor units the increment of the last roundTo is worth
LastStep == ExactMinor(last.num, records[monies[last.args[1]].currency].decimalPlaces)

\* the last call is roundTo with an increment worth a whole number (1 or
\* more) of minor units of the currency of its operand
RoundToByStep ==
  /\ last.op = "roundTo"
  /\ IsPositive(last.num)
  /\ IsRepresentable(last.num, records[monies[last.args[1]].currency].decimalPlaces)
  /\ BigGe(LastStep, BigOf(1))

\* C11: roundTo(roundTo(x, inc, mode), inc, mode) is roundTo(x, inc, mode),
\* and roundTo of an amount that is a multiple of a representable increment
\* returns an equal Money.
C11_RoundToIdempotent ==
  /\ (last.op = "roundTo" /\ last.args = <<2>>) =>
       (last.outcome = "ok" /\ last.res = <<3>> /\ monies[3] = monies[2])
  /\ (RoundToByStep /\ BigIsZero(BigRem(monies[last.args[1]].minor, LastStep))) =>
       (/\ last.outcome = "ok"
        /\ Len(last.res) = 1
        /\ monies[last.res[1]] = monies[last.args[1]])

\* C11, the case: roundTo of 110 satoshi to the increment 1e-7 BTC (10
\* satoshi) failed.
C11_AlignedAmountRejected ==
  /\ last.op = "roundTo" /\ last.args = <<1>> /\ last.num = N_1em7
  /\ monies[1] = NewMoney(BigOf(110), BTC)
  /\ last.outcome = "IncrementNotRepresentable"

\* is r the multiple of step that the mode asks for: under floor the
\* greatest one at or below m, under ceil the least one at or above m, under
\* trunc the one next to m on the side of zero, under the default mode the
\* nearest one with a tie taken upward
IsRoundedTo(r, m, step, mode) ==
  /\ BigIsZero(BigRem(r, step))
  /\ CASE mode = "floor" -> BigLe(r, m) /\ BigLt(m, BigAdd(r, step))
       [] mode = "ceil" -> BigLt(BigSub(r, step), m) /\ BigLe(m, r)
       [] mode = "trunc" ->
            /\ BigLe(BigAbs(r), BigAbs(m))
            /\ BigLt(BigAbs(m), BigAdd(BigAbs(r), step))
            /\ BigIsZero(r) \/ (BigIsNeg(r) <=> BigIsNeg(m))
       [] OTHER ->
            /\ BigLe(BigMul(BigOf(2), BigAbs(BigSub(m, r))), step)
            /\ BigMul(BigOf(2), BigAbs(BigSub(m, r))) = step => BigGt(r, m)

\* the multiple of step that the mode asks for
RoundedTo(m, step, mode) ==
  CHOOSE r \in {BigSub(BigSub(m, BigRem(m, step)), step),
                BigSub(m, BigRem(m, step)),
                BigAdd(BigSub(m, BigRem(m, step)), step)} :
    IsRoundedTo(r, m, step, mode)

\* C12: roundTo with an increment worth step >= 1 minor units returns a Money
\* in the currency of its operand whose minor amount is the multiple of step
\* that the mode asks for, for either sign of the amount (it fails with
\* ResultTooLarge only when that multiple is outside the safe-integer
\* envelope).
C12_RoundToMultiple ==
  RoundToByStep =>
    /\ last.outcome \in {"ok", "ResultTooLarge"}
    /\ last.outcome = "ok" =>
         /\ Len(last.res) = 1
         /\ monies[last.res[1]].currency = monies[last.args[1]].currency
         /\ IsRoundedTo(monies[last.res[1]].minor, monies[last.args[1]].minor,
                        LastStep, RoundingOrDefault(last.mode))
    /\ last.outcome = "ResultTooLarge" =>
         ~InEnvelope(RoundedTo(monies[last.args[1]].minor, LastStep,
                               RoundingOrDefault(last.mode)))

\* C12, the case: roundTo of 110 satoshi to the increment 1e-7 BTC, worth 10
\* satoshi, returned no Money under the floor mode.
C12_StepOfTenRejected ==
  /\ last.op = "roundTo" /\ last.args = <<1>> /\ last.num = N_1em7
  /\ last.mode = "floor"
  /\ monies[1] = NewMoney(BigOf(110), BTC)
  /\ LastStep = BigOf(10)
  /\ last.outcome # "ok" /\ last.res = <<>>

\* C13: roundTo fails with InvalidIncrement exactly when the increment is
\* NaN, infinite, zero or negative; otherwise with IncrementNotRepresentable
\* exactly when the increment is not a whole number of minor units of the
\* currency; otherwise with IncrementTooSmall exactly when the step is zero
\* minor units; a failed call returns no Money.
C13_RoundToFailures ==
  (last.op = "roundTo") =>
    /\ last.outcome = "InvalidIncrement" <=> ~IsPositive(last.num)
    /\ IsPositive(last.num) =>
         LET divisor == BigPow10(INTERNAL_PRECISION
                                 - records[monies[last.args[1]].currency].decimalPlaces)
             whole   == BigIsZero(BigRem(WrittenScaled(last.num), divisor))
             zero    == BigIsZero(BigDiv(WrittenScaled(last.num), divisor))
         IN  /\ last.outcome = "IncrementNotRepresentable" <=> ~whole
             /\ last.outcome = "IncrementTooSmall" <=> (whole /\ zero)
    /\ last.outcome # "ok" => last.res = <<>>

\* C13, the case: roundTo of a BTC amount to the increment 1e-7, a whole
\* number of satoshi, failed with IncrementNotRepresentable.
C13_WholeIncrementRejected ==
  /\ last.op = "roundTo" /\ last.args = <<1>> /\ last.num = N_1em7
  /\ monies[1].currency = BTC
  /\ BigIsZero(BigRem(WrittenScaled(last.num), BigPow10(INTERNAL_PRECISION - 8)))
  /\ last.outcome = "IncrementNotRepresentable"

(* SpecConvert: one convert of a Money made by fromMinor, to every built-in *)
(* currency, at valid and invalid rates, under every mode.                  *)

ConvertMinors ==
  {NumOfInt(k) : k \in (-MaxAmount)..MaxAmount}
  \cup {NumOfInt(123), NumOfInt(-123), N_MAX_SAFE_INTEGER,
        N_neg_MAX_SAFE_INTEGER, N_2_pow_53}

ConvertRates ==
  {NumOfInt(1), N_1_005, NumOfInt(157), N_0_5, N_1em7, N_1_0000000000001,
   NumOfInt(0),
   NumOfInt(-1), N_neg_2_5, NumNaN, NumInfinity, NumNegInfinity}

InitConvert ==
  /\ records = BuiltinRecords
  /\ \E c \in {USD, JPY, BTC}, n \in ConvertMinors : monies = fromMinor(c, n).out
  /\ last = NoCall

NextConvert ==
  \E c \in DOMAIN records, rate \in ConvertRates, mode \in ModeOptions :
    Fresh /\ Convert(1, c, rate, mode)

SpecConvert == InitConvert /\ [][NextConvert]_vars

\* the minor amount convert has rounded to, before the range check
LastConverted ==
  roundScaledToMinor(convertRawProduct(monies[last.args[1]], last.num),
                     records[last.cur].decimalPlaces,
                     RoundingOrDefault(last.mode))

\* C14: convert fails with InvalidRate exactly when the rate is NaN, an
\* infinity, zero or negative, whatever the amount is; a successful convert
\* returns one new Money in the target currency; with a valid rate it fails
\* with ResultTooLarge exactly when the magnitude of the rounded result
\* exceeds 2^53 - 1.
C14_ConvertFailures ==
  (last.op = "convert") =>
    /\ last.outcome = "InvalidRate" <=> ~IsPositive(last.num)
    /\ last.outcome = "ok" =>
         /\ Len(last.res) = 1
         /\ last.res[1] = Len(monies) /\ last.res[1] # last.args[1]
         /\ monies[last.res[1]] = NewMoney(LastConverted, last.cur)
    /\ IsPositive(last.num) =>
         /\ last.outcome \in {"ok", "ResultTooLarge"}
         /\ last.outcome = "ResultTooLarge" <=> ~InEnvelope(LastConverted)
    /\ last.outcome # "ok" => last.res = <<>>

\* C14, the case: convert of a zero amount at the rate 0 failed with
\* InvalidRate.
C14_ZeroAmountZeroRate ==
  /\ last.op = "convert" /\ BigIsZero(monies[1].minor)
  /\ NumIsZero(last.num)
  /\ last.outcome = "InvalidRate" /\ Len(monies) = 1

\* C14, the case: convert of 2^53 - 1 cents to JPY at the rate 157 failed
\* with ResultTooLarge.
C14_ConvertTooLarge ==
  /\ last.op = "convert" /\ monies[1] = NewMoney(MAX_SAFE_INTEGER, USD)
  /\ last.cur = JPY /\ last.num = NumOfInt(157)
  /\ last.outcome = "ResultTooLarge"

\* the minor amount of the operand of the last call, written with the decimal
\* places of the target currency of that call (which has no fewer places)
LastImage ==
  BigMul(monies[last.args[1]].minor,
         BigPow10(records[last.cur].decimalPlaces
                  - records[monies[last.args[1]].currency].decimalPlaces))

\* C15: convert at the rate 1 to a currency with d >= 0 more decimal places
\* returns, under every mode, the minor amount of its operand times 10^d,
\* when that amount is within the safe-integer envelope (and fails with
\* ResultTooLarge when it is not).
C15_RateOneExact ==
  ( /\ last.op = "convert" /\ last.num = NumOfInt(1)
    /\ records[last.cur].decimalPlaces
         >= records[monies[last.args[1]].currency].decimalPlaces ) =>
    IF InEnvelope(LastImage)
    THEN /\ last.outcome = "ok"
         /\ monies[last.res[1]] = NewMoney(LastImage, last.cur)
    ELSE last.outcome = "ResultTooLarge"

\* C15, the case: convert of -123 cents to USDH at the rate 1 under floor
\* returned -1230.
C15_FloorKeepsUnit ==
  /\ last.op = "convert" /\ last.num = NumOfInt(1) /\ last.mode = "floor"
  /\ monies[1] = NewMoney(BigOf(-123), USD)
  /\ last.outcome = "ok"
  /\ monies[last.res[1]] = NewMoney(BigOf(-1230), USDH)

(* SpecPercent: one percent operation on a Money made by fromMinor, and    *)
(* after incrementByPercent or decrementByPercent the other of the two on  *)
(* the same Money with the negated percent and the same mode.              *)

\* -n
NumNeg(n) ==
  IF n.kind = "NaN" \/ NumIsZero(n) THEN n
  ELSE [n EXCEPT !.neg = ~n.neg,
                 !.str = IF n.neg THEN Tail(n.str) ELSE <<"-">> \o n.str,
                 !.p17 = IF n.p17 = <<>> THEN <<>>
                         ELSE IF n.neg THEN Tail(n.p17) ELSE <<"-">> \o n.p17]

PercentMinors ==
  {NumOfInt(k) : k \in (-MaxAmount)..MaxAmount}
  \cup {NumOfInt(1000), NumOfInt(-110), NumOfInt(1000000000),
        N_MAX_SAFE_INTEGER}

PercentValues ==
  {NumOfInt(100), NumOfInt(0), NumOfInt(1), N_12_5, NumNeg(N_12_5), N_2_5,
   N_neg_2_5, N_0_5, N_1em7, NumNeg(N_1em7), NumNaN, NumInfinity}

InitPercent ==
  /\ records = BuiltinRecords
  /\ \E c \in {USD, JPY, BTC}, n \in PercentMinors : monies = fromMinor(c, n).out
  /\ last = NoCall

NextPercent ==
  \/ \E percent \in PercentValues, mode \in ModeOptions :
       Fresh /\ PercentOf(1, percent, mode)
  \/ \E percent \in PercentValues, mode \in ModeOptions :
       Fresh /\ IncrementByPercent(1, percent, mode)
  \/ \E percent \in PercentValues, mode \in ModeOptions :
       Fresh /\ DecrementByPercent(1, percent, mode)
  \/ /\ last.op = "incrementByPercent" /\ Len(monies) <= 2
     /\ DecrementByPercent(1, NumNeg(last.num), last.mode)
  \/ /\ last.op = "decrementByPercent" /\ Len(monies) <= 2
     /\ IncrementByPercent(1, NumNeg(last.num), last.mode)

SpecPercent == InitPercent /\ [][NextPercent]_vars

PercentOps == {"percentOf", "incrementByPercent", "decrementByPercent"}

\* the decimal that n.toString() writes, with its sign, as an integer over
\* WrittenDivisor(n)
WrittenSigned(n) ==
  LET magnitude == IF WrittenDecimal(n).places >= 0 THEN WrittenDecimal(n).coef
                   ELSE BigMul(WrittenDecimal(n).coef,
                               BigPow10(-WrittenDecimal(n).places))
  IN  IF n.neg THEN BigNeg(magnitude) ELSE magnitude

WrittenDivisor(n) ==
  BigPow10(IF WrittenDecimal(n).places >= 0 THEN WrittenDecimal(n).places ELSE 0)

\* p, 100 + p or 100 - p as an integer over WrittenDivisor(p)
PercentFactor(op, p) ==
  CASE op = "percentOf" -> WrittenSigned(p)
    [] op = "incrementByPercent" ->
         BigAdd(BigMul(BigOf(100), WrittenDivisor(p)), WrittenSigned(p))
    [] OTHER ->
         BigSub(BigMul(BigOf(100), WrittenDivisor(p)), WrittenSigned(p))

\* the exact value of the last percent operation, rounded by its mode
LastPercentExact ==
  roundByDivisor(BigMul(monies[last.args[1]].minor,
                        PercentFactor(last.op, last.num)),
                 BigMul(BigOf(100), WrittenDivisor(last.num)),
                 RoundingOrDefault(last.mode))

\* C16: for a finite percent p, percentOf returns in the currency of m the
\* exact value m.minor * p / 100 rounded to an integer by the mode,
\* incrementByPercent m.minor * (100 + p) / 100 and decrementByPercent
\* m.minor * (100 - p) / 100 rounded likewise; each fails with
\* ResultTooLarge when the rounded magnitude exceeds 2^53 - 1.
C16_PercentExact ==
  (last.op \in PercentOps /\ NumIsFinite(last.num)) =>
    IF InEnvelope(LastPercentExact)
    THEN /\ last.outcome = "ok"
         /\ Len(last.res) = 1
         /\ monies[last.res[1]]
              = NewMoney(LastPercentExact, monies[last.args[1]].currency)
    ELSE last.outcome = "ResultTooLarge"

\* C16, the case: percentOf of 1000000000 cents and 1e-7 percent under floor,
\* exactly 1 cent, returned 0 cents.
C16_OneCentLost ==
  /\ last.op = "percentOf" /\ last.num = N_1em7 /\ last.mode = "floor"
  /\ monies[1] = NewMoney(BigOf(1000000000), USD)
  /\ LastPercentExact = BigOf(1)
  /\ last.outcome = "ok"
  /\ monies[last.res[1]] = NewMoney(BigZero, USD)

\* C17: incrementByPercent(m, -p) and decrementByPercent(m, p) have the same
\* outcome, and so have decrementByPercent(m, -p) and incrementByPercent(m, p):
\* when one of the two calls follows the other on the same Money with the
\* negated finite percent and the same mode, both fail the same way or both
\* return Money with the same minor amount and currency.
C17_NegatedPercent ==
  [][ ( /\ {last.op, last'.op} = {"incrementByPercent", "decrementByPercent"}
        /\ NumIsFinite(last.num)
        /\ last'.num = NumNeg(last.num)
        /\ last'.mode = last.mode /\ last'.args = last.args ) =>
      /\ last'.outcome = last.outcome
      /\ last.outcome = "ok" =>
           /\ Len(last.res) = 1 /\ Len(last'.res) = 1
           /\ monies'[last'.res[1]] = monies[last.res[1]]
      /\ last.outcome # "ok" => last'.res = <<>> ]_vars

\* C17, the case: decrementByPercent of 1000 cents and 12.5 percent gave 875
\* cents after incrementByPercent of the same Money and -12.5 percent had.
C17_DecrementAfterNegativeIncrement ==
  /\ last.op = "decrementByPercent" /\ last.num = N_12_5
  /\ last.args = <<1>> /\ last.res = <<3>>
  /\ monies[1] = NewMoney(BigOf(1000), USD)
  /\ monies[2] = NewMoney(BigOf(875), USD)
  /\ monies[3] = NewMoney(BigOf(875), USD)

\* the exact total of the minor amounts of the Money instances at positions
RECURSIVE TotalOf(_)
TotalOf(positions) ==
  IF positions = <<>> THEN BigZero
  ELSE BigAdd(monies[Head(positions)].minor, TotalOf(Tail(positions)))

\* C18: sum fails with EmptyInput for an empty list; for a non-empty list it
\* fails with CurrencyMismatch exactly when the record of some item differs
\* from the record of the first, and otherwise returns one Money in the
\* currency of the first item with the exact total as its minor amount,
\* failing with ResultTooLarge exactly when the magnitude of that total
\* exceeds 2^53 - 1.
C18_SumOutcome ==
  (last.op = "sum") =>
    IF last.args = <<>> THEN last.outcome = "EmptyInput" /\ last.res = <<>>
    ELSE IF \E k \in DOMAIN last.args : RecordsDiffer(last.args[1], last.args[k])
    THEN last.outcome = "CurrencyMismatch" /\ last.res = <<>>
    ELSE IF InEnvelope(TotalOf(last.args))
    THEN /\ last.outcome = "ok"
         /\ Len(last.res) = 1
         /\ monies[last.res[1]]
              = NewMoney(TotalOf(last.args), monies[last.args[1]].currency)
    ELSE last.outcome = "ResultTooLarge" /\ last.res = <<>>

\* C18, the case: sum of 2^53 - 1, 2^53 - 1 and -(2^53 - 1) returned
\* 2^53 - 1, though the total of the first two is outside the envelope.
C18_TotalCheckedAtEnd ==
  /\ last.op = "sum" /\ last.args = <<1, 1, 2>>
  /\ monies[1].minor = MAX_SAFE_INTEGER
  /\ monies[2].minor = BigNeg(MAX_SAFE_INTEGER)
  /\ last.outcome = "ok"
  /\ monies[last.res[1]].minor = MAX_SAFE_INTEGER

\* C19: add(a, b) and add(b, a) both fail with CurrencyMismatch when the
\* records of a and b differ; when they do not, both have the same outcome,
\* and when they return, the two Money have the same minor amount and records
\* that do not differ.
C19_AddSymmetric ==
  [][ ( /\ last.op = "add" /\ last'.op = "add"
        /\ last.args = <<1, 2>> /\ last'.args = <<2, 1>> ) =>
      IF RecordsDiffer(1, 2)
      THEN /\ last.outcome = "CurrencyMismatch" /\ last.res = <<>>
           /\ last'.outcome = "CurrencyMismatch" /\ last'.res = <<>>
      ELSE /\ last'.outcome = last.outcome
           /\ last.outcome \in {"ok", "ResultTooLarge"}
           /\ last.outcome = "ok" <=>
                InEnvelope(BigAdd(monies[1].minor, monies[2].minor))
           /\ last.outcome = "ok" =>
                /\ Len(last.res) = 1 /\ Len(last'.res) = 1
                /\ monies'[last'.res[1]].minor = monies[last.res[1]].minor
                /\ equals(monies'[last.res[1]], monies'[last'.res[1]])
                     = ReturnsBoolean(TRUE) ]_vars

\* C19, the case: add(b, a) returned 1 after add(a, b) had, for a of 1 and b
\* of 0 held under two different records for USD with 2 decimal places.
C19_BothOrdersReturned ==
  /\ last.op = "add" /\ last.args = <<2, 1>> /\ last.res = <<4>>
  /\ monies[1].minor = BigOf(1) /\ monies[2].minor = BigOf(0)
  /\ monies[1].currency # monies[2].currency
  /\ monies[3] = NewMoney(BigOf(1), monies[1].currency)
  /\ monies[4] = NewMoney(BigOf(1), monies[2].currency)

\* C19, the case: add(b, a) failed with CurrencyMismatch after add(a, b) had,
\* for a in USD and b in EUR.
C19_BothOrdersFailed ==
  /\ last.op = "add" /\ last.args = <<2, 1>>
  /\ monies[1].currency = USD /\ monies[2].currency = EUR
  /\ last.outcome = "CurrencyMismatch" /\ Len(monies) = 2

(* SpecMinor: fromMinor, then toMinor or toJSON on the Money it returned,  *)
(* and after toJSON fromMinor again with the amount of the JSON form and   *)
(* the currency of the Money.                                              *)

MinorValues ==
  {NumOfInt(k) : k \in (-MaxAmount)..MaxAmount}
  \cup {NumOfInt(100), NumOfInt(-1234567), N_MAX_SAFE_INTEGER,
        N_neg_MAX_SAFE_INTEGER, N_2_pow_53, N_neg_2_pow_53,
        N_9007199254740994, N_1_5}

InitMinor == records = BuiltinRecords /\ monies = <<>> /\ last = NoCall

NextMinor ==
  \/ \E c \in DOMAIN records, n \in MinorValues : Fresh /\ FromMinor(c, n)
  \/ last.op = "fromMinor" /\ Len(monies) = 1 /\ ToMinor(1)
  \/ last.op = "fromMinor" /\ Len(monies) = 1 /\ ToJSON(1)
  \/ last.op = "toJSON" /\ FromMinor(monies[1].currency, last.ret)

SpecMinor == InitMinor /\ [][NextMinor]_vars

\* are a and b the same number
NumSame(a, b) ==
  a.kind = b.kind /\ a.neg = b.neg /\ a.num = b.num /\ a.fdig = b.fdig

SignOfDifference(a, b) ==
  IF BigIsZero(BigSub(a, b)) THEN 0
  ELSE IF BigIsNeg(BigSub(a, b)) THEN -1 ELSE 1

\* C21: for a and b of equivalent currency compare(a, b) is -1, 0 or 1 as
\* a.minor is less than, equal to or greater than b.minor; the call after
\* compare(a, b) returns: equals the truth of compare = 0, lessThan of
\* compare < 0, greaterThan of compare > 0, lessThanOrEqual of compare <= 0,
\* greaterThanOrEqual of compare >= 0, and compare(b, a) the negation of
\* compare(a, b).
C21_CompareOrders ==
  [][ /\ (last'.op = "compare" /\ ~RecordsDiffer(1, 2)) =>
           /\ last'.outcome = "ok"
           /\ last'.cmp = SignOfDifference(monies[last'.args[1]].minor,
                                           monies[last'.args[2]].minor)
      /\ (last.op = "compare" /\ last.outcome = "ok") =>
           /\ last'.outcome = "ok"
           /\ CASE last'.op = "compare" -> last'.cmp = -last.cmp
                [] last'.op = "equals" -> last'.flag <=> last.cmp = 0
                [] last'.op = "lessThan" -> last'.flag <=> last.cmp < 0
                [] last'.op = "greaterThan" -> last'.flag <=> last.cmp > 0
                [] last'.op = "lessThanOrEqual" -> last'.flag <=> last.cmp <= 0
                [] last'.op = "greaterThanOrEqual" -> last'.flag <=> last.cmp >= 0
                [] OTHER -> FALSE ]_vars

\* C21, the case: compare(b, a) returned 1 for a of -1 and b of 1 held under
\* two different records for USD with 2 decimal places.
C21_NegativeBelowPositive ==
  /\ last.op = "compare" /\ last.args = <<2, 1>> /\ last.outcome = "ok"
  /\ monies[1].minor = BigOf(-1) /\ monies[2].minor = BigOf(1)
  /\ monies[1].currency # monies[2].currency
  /\ last.cmp = 1

(* SpecCurrency: defineCurrency, then fromMinor on built-in and defined     *)
(* records, then add or equals on the two Money instances.                 *)

CurrencyCodes == {"", "USD", "XAU"}

CurrencyPlaces ==
  {NumOfInt(0), NumOfInt(2), NumOfInt(4), NumOfInt(-1), N_2_5, NumNaN,
   NumInfinity}

InitCurrency == records = BuiltinRecords /\ monies = <<>> /\ last = NoCall

NextCurrency ==
  \/ \E code \in CurrencyCodes, decimalPlaces \in CurrencyPlaces :
       /\ monies = <<>> /\ Len(records) < Len(BuiltinRecords) + MaxDefined
       /\ DefineCurrency(code, decimalPlaces)
  \/ \E c \in {USD} \cup (DOMAIN records \ DOMAIN BuiltinRecords) :
       Room /\ FromMinor(c, NumOfInt(1))
  \/ last.op = "fromMinor" /\ Len(monies) >= 2 /\ Add(1, 2)
  \/ last.op = "fromMinor" /\ Len(monies) >= 2 /\ Equals(1, 2)

SpecCurrency == InitCurrency /\ [][NextCurrency]_vars

\* is n an integer that is not negative
IsNaturalNumber(n) == n.kind = "finite" /\ n.fdig = 0 /\ ~n.neg

C23_CountChecked ==
  (last.op = "allocate") =>
    IF ~IsNaturalNumber(last.num) \/ NumIsZero(last.num)
    THEN last.outcome = "InvalidCount" /\ last.res = <<>>
    ELSE IF BigGt(NumToBig(last.num), MAX_SAFE_INTEGER)
    THEN last.outcome = "UnsafeCount" /\ last.res = <<>>
    ELSE last.outcome = "ok" /\ BigOf(Len(last.res)) = NumToBig(last.num)

\* C23, the case: allocate with the safe integer 2^53 - 1 as parts returned
\* no share.
C23_SafeCountFailed ==
  /\ last.op = "allocate" /\ last.num = N_MAX_SAFE_INTEGER
  /\ last.outcome # "ok" /\ last.res = <<>>

(* SpecAlias: the caller writes currency records as object literals, makes *)
(* Money on them with fromMinor, convert and add, and assigns to the       *)
(* fields of its own records afterwards.  No record here is frozen.        *)

LiteralPlaces == {2, 3}

LiteralCodes == {"USD", "XAU"}

\* the records the caller wrote itself
OwnRecords == DOMAIN records \ DOMAIN BuiltinRecords

InitAlias == records = BuiltinRecords /\ monies = <<>> /\ last = NoCall

NextAlias ==
  \/ \E code \in LiteralCodes, decimalPlaces \in LiteralPlaces :
       /\ Len(records) < Len(BuiltinRecords) + MaxDefined
       /\ ObjectLiteral(code, decimalPlaces)
  \/ \E c \in OwnRecords : Room /\ FromMinor(c, NumOfInt(1234))
  \/ \E m \in DOMAIN monies, c \in OwnRecords :
       Room /\ Convert(m, c, NumOfInt(1), "undefined")
  \/ \E m \in DOMAIN monies : Room /\ Add(m, m)
  \/ \E r \in OwnRecords, decimalPlaces \in LiteralPlaces :
       AssignDecimalPlaces(r, decimalPlaces)
  \/ \E r \in OwnRecords, code \in LiteralCodes : AssignCode(r, code)

SpecAlias == InitAlias /\ [][NextAlias]_vars

\* what a Money shows: its minor amount, and the code and the decimalPlaces
\* of its currency
Shown(ms, rs, i) ==
  [minor |-> ms[i].minor, code |-> rs[ms[i].currency].code,
   decimalPlaces |-> rs[ms[i].currency].decimalPlaces]

\* C24: no step changes what an existing Money shows: its minor amount, its
\* currency code and its decimalPlaces stay what they were when it was
\* returned, whatever the caller does to the objects it passed in.
C24_MoneyOwnsItsState ==
  [][\A i \in DOMAIN monies :
       i \in DOMAIN monies' /\ Shown(monies', records', i) = Shown(monies, records, i)]_vars

\* C24, the case: a Money of 1234 minor units made by fromMinor on a record
\* the caller wrote with 2 decimal places shows 3 decimal places after the
\* caller assigned 3 to the decimalPlaces of that record.
C24_DecimalPlacesChanged ==
  /\ last.op = "assign" /\ Len(monies) = 1 /\ Len(records) = Len(BuiltinRecords) + 1
  /\ monies[1] = NewMoney(BigOf(1234), last.cur)
  /\ Shown(monies, records, 1)
       = [minor |-> BigOf(1234), code |-> "USD", decimalPlaces |-> 3]

TwiceDistance(n, dp, r) ==
  BigMul(BigOf(2),
         BigAbs(BigSub(BigMul(WrittenSigned(n), BigPow10(dp)),
                       BigMul(r, WrittenDivisor(n)))))

LastWrittenMinor ==
  roundByDivisor(BigMul(WrittenSigned(last.num),
                        BigPow10(records[last.cur].decimalPlaces)),
                 WrittenDivisor(last.num), RoundingOrDefault(last.mode))

\* C26, for fromNumber: the call is decided by the decimal that the number's
\* toString() writes, and by nothing else: with strict and a decimal that is
\* no whole number of minor units it fails; otherwise it returns that
\* decimal rounded by the mode when the rounded magnitude is at most 2^53 - 1
\* and fails when it is larger.
C26_DecimalPathDecides ==
  (last.op = "fromNumber" /\ NumIsFinite(last.num)) =>
    IF \/ ( /\ last.strict
            /\ ~BigIsZero(BigRem(BigMul(WrittenSigned(last.num),
                                        BigPow10(records[last.cur].decimalPlaces)),
                                 WrittenDivisor(last.num))) )
       \/ ~InEnvelope(LastWrittenMinor)
    THEN last.outcome # "ok"
    ELSE /\ last.outcome = "ok"
         /\ Len(last.res) = 1
         /\ monies[last.res[1]] = NewMoney(LastWrittenMinor, last.cur)

\* C26 for the numbers that toString() writes without an exponent: here the
\* estimate Math.abs(value) * 10 ** dp never decides a call differently from
\* the decimal path.
C26_PlainNumbersDecided ==
  IndexOf(last.num.str, {"e", "E"}) = 0 => C26_DecimalPathDecides

\* C26, the case: fromNumber(BTC, 1e-7, floor), exactly 10 satoshi, holds 9.
C26_NineSatoshi ==
  /\ last.op = "fromNumber" /\ last.cur = BTC /\ last.num = N_1em7
  /\ last.mode = "floor" /\ ~last.strict
  /\ LastWrittenMinor = BigOf(10)
  /\ last.outcome = "ok"
  /\ monies[last.res[1]] = NewMoney(BigOf(9), BTC)

\* C26, the estimate at work: fromNumber(BTC, 90071992.54740992) is refused
\* by the estimate, and its decimal is 2^53 satoshi.
C26_EstimateRefused ==
  /\ last.op = "fromNumber" /\ last.cur = BTC /\ last.num = N_90071992_54740992
  /\ last.outcome = "ValueTooLarge"
  /\ LastWrittenMinor = BigAdd(MAX_SAFE_INTEGER, BigOf(1))

\* the last convert: the exact product m.minor * r * 10^(t.decimalPlaces -
\* source decimalPlaces), r the decimal that rate.toString() writes, rounded
\* by the mode
LastExactlyConverted ==
  roundByDivisor(BigMul(BigMul(monies[last.args[1]].minor, WrittenSigned(last.num)),
                        BigPow10(records[last.cur].decimalPlaces)),
                 BigMul(WrittenDivisor(last.num),
                        BigPow10(records[monies[last.args[1]].currency].decimalPlaces)),
                 RoundingOrDefault(last.mode))

\* C27: for a positive rate r written with at most 20 fractional digits,
\* convert(m, t, r, mode) returns in t the exact product m.minor * r *
\* 10^(t.decimalPlaces - source decimalPlaces) rounded once by the mode, when
\* the rounded magnitude is at most 2^53 - 1, and fails with ResultTooLarge
\* when it is larger.
C27_ExactProductRounded ==
  ( /\ last.op = "convert" /\ IsPositive(last.num)
    /\ WrittenDecimal(last.num).places <= INTERNAL_PRECISION ) =>
    IF InEnvelope(LastExactlyConverted)
    THEN /\ last.outcome = "ok"
         /\ Len(last.res) = 1
         /\ monies[last.res[1]] = NewMoney(LastExactlyConverted, last.cur)
    ELSE last.outcome = "ResultTooLarge"

\* C27 where the product of the scaled amount and the scaled rate is a
\* multiple of 10^20 and the rate is written without an exponent: nothing is
\* cut off before the rounding, and the result is the exact product rounded.
C27_WholeProductsRounded ==
  ( /\ last.op = "convert" /\ IsPositive(last.num)
    /\ IndexOf(last.num.str, {"e", "E"}) = 0
    /\ BigIsZero(BigRem(BigMul(BigMul(monies[last.args[1]].minor,
                                      BigDiv(INTERNAL_SCALE,
                                             BigPow10(records[monies[last.args[1]].currency].decimalPlaces))),
                               parseDecimalStringToScaled(numberToDecimalString(last.num))),
                        INTERNAL_SCALE)) ) =>
    C27_ExactProductRounded

\* C27, the case: convert of 1 satoshi to BTC at the rate 1.0000000000001
\* under ceil, exactly 1.0000000000001 satoshi with ceiling 2, returned 1.
C27_CeilBelowValue ==
  /\ last.op = "convert" /\ last.num = N_1_0000000000001 /\ last.mode = "ceil"
  /\ monies[1] = NewMoney(BigOf(1), BTC) /\ last.cur = BTC
  /\ LastExactlyConverted = BigOf(2)
  /\ last.outcome = "ok"
  /\ monies[last.res[1]] = NewMoney(BigOf(1), BTC)

\* C27, the negative case: convert of -1 satoshi to BTC at the rate
\* 1.0000000000001 under floor, with floor -2, returned -1.
C27_FloorAboveValue ==
  /\ last.op = "convert" /\ last.num = N_1_0000000000001 /\ last.mode = "floor"
  /\ monies[1] = NewMoney(BigOf(-1), BTC) /\ last.cur = BTC
  /\ LastExactlyConverted = BigOf(-2)
  /\ last.outcome = "ok"
  /\ monies[last.res[1]] = NewMoney(BigOf(-1), BTC)

\* items.slice(i).reduce(Money.add, acc): add applied from the left, the first
\* failure ending the fold
RECURSIVE foldAdd(_, _, _)
foldAdd(acc, items, i) ==
  IF i > Len(items) THEN Returns(<<acc>>)
  ELSE IF add(acc, items[i]).outcome # "ok" THEN add(acc, items[i])
  ELSE foldAdd(add(acc, items[i]).out[1], items, i + 1)

\* the fold of add over the items of the last sum
LastFold == foldAdd(monies[last.args[1]], [k \in DOMAIN last.args |-> monies[last.args[k]]], 2)

\* C28 as stated: sum of a non-empty list has the outcome of the fold of add
\* over it, the same Money when the fold returns and a failure exactly when
\* the fold fails.
C28_SumIsFoldOfAdd ==
  (last.op = "sum" /\ last.args # <<>>) =>
    IF LastFold.outcome = "ok"
    THEN /\ last.outcome = "ok"
         /\ Len(last.res) = 1
         /\ monies[last.res[1]] = LastFold.out[1]
    ELSE last.outcome # "ok"

\* every partial sum of the items of the last sum, the first item alone
\* included, has a magnitude of at most 2^53 - 1
PartialSumsSafe ==
  \A k \in DOMAIN last.args : InEnvelope(TotalOf(SubSeq(last.args, 1, k)))

\* C28 as it holds: when every partial sum of a non-empty list, the first
\* item alone included, is within the safe range, sum has the outcome of the
\* fold of add over it: the same Money, or CurrencyMismatch. Otherwise sum
\* looks at the final total only: it fails with CurrencyMismatch if the record
\* of some item differs from the first, returns the exact total when its
\* magnitude is at most 2^53 - 1 and fails with ResultTooLarge when it is
\* larger.
C28_SumChecksTotalOnly ==
  (last.op = "sum" /\ last.args # <<>>) =>
    IF PartialSumsSafe
    THEN /\ last.outcome = LastFold.outcome
         /\ last.outcome \in {"ok", "CurrencyMismatch"}
         /\ last.outcome = "ok" =>
              Len(last.res) = 1 /\ monies[last.res[1]] = LastFold.out[1]
    ELSE IF \E k \in DOMAIN last.args : RecordsDiffer(last.args[1], last.args[k])
    THEN last.outcome = "CurrencyMismatch"
    ELSE IF InEnvelope(TotalOf(last.args))
    THEN /\ last.outcome = "ok"
         /\ monies[last.res[1]]
              = NewMoney(TotalOf(last.args), monies[last.args[1]].currency)
    ELSE last.outcome = "ResultTooLarge"

\* C28, the case: the fold of add over 2^53 - 1, 2^53 - 1 and -(2^53 - 1)
\* fails with ResultTooLarge at its first add, and sum returned 2^53 - 1.
C28_FoldFailedSumReturned ==
  /\ last.op = "sum" /\ last.args = <<1, 1, 2>>
  /\ monies[1].minor = MAX_SAFE_INTEGER
  /\ monies[2].minor = BigNeg(MAX_SAFE_INTEGER)
  /\ LastFold.outcome = "ResultTooLarge"
  /\ last.outcome = "ok"
  /\ monies[last.res[1]] = NewMoney(MAX_SAFE_INTEGER, monies[1].currency)

----------------------------------------------------------------------------
(* SpecWide: one call on a Money of, or into, a currency that defineCurrency *)
(* accepts with one decimal place more than the internal precision.          *)

\* defineCurrency("XPR", 21)
WideRecords ==
  IF defineCurrencyThrows("XPR", NumOfInt(INTERNAL_PRECISION + 1)) THEN BuiltinRecords
  ELSE BuiltinRecords \o <<defineCurrency("XPR", NumOfInt(INTERNAL_PRECISION + 1))>>

XPR == Len(BuiltinRecords) + 1

WideCurrencies == {USD, BTC, XPR}

WideMinors ==
  {NumOfInt(0), NumOfInt(1), NumOfInt(-1), NumOfInt(1000), N_MAX_SAFE_INTEGER}

InitWide ==
  /\ records = WideRecords
  /\ \E c \in WideCurrencies, n \in WideMinors : monies = fromMinor(c, n).out
  /\ last = NoCall

NextWide ==
  \/ \E c \in WideCurrencies, v \in {NumOfInt(0), NumOfInt(1), N_1em8, N_12_34},
        rounding \in ModeOptions, strict \in BOOLEAN :
       Fresh /\ FromNumber(c, v, rounding, strict)
  \/ \E c \in WideCurrencies, rate \in {NumOfInt(1), N_0_5}, mode \in ModeOptions :
       Fresh /\ Convert(1, c, rate, mode)
  \/ \E increment \in {NumOfInt(1), N_0_5}, mode \in ModeOptions :
       Fresh /\ RoundTo(1, increment, mode)
  \/ \E percent \in {NumOfInt(0), N_12_5}, mode \in ModeOptions :
       Fresh /\ PercentOf(1, percent, mode)
  \/ \E percent \in {NumOfInt(0), N_12_5}, mode \in ModeOptions :
       Fresh /\ IncrementByPercent(1, percent, mode)
  \/ \E percent \in {NumOfInt(0), N_12_5}, mode \in ModeOptions :
       Fresh /\ DecrementByPercent(1, percent, mode)

SpecWide == InitWide /\ [][NextWide]_vars

\* the operations that take a number beside a Money or a currency
NumberOps == {"fromNumber", "convert", "roundTo"} \cup PercentOps

\* C29: on the currencies that defineCurrency accepts, XPR with its 21
\* decimal places among them, fromNumber, convert, roundTo and the percent
\* operations never fail with the RangeError of a division by zero, and a
\* convert that returns holds the exact product of the amount and the rate
\* rounded by the mode, which is 0 only when that rounded product is.
C29_AcceptedCurrencyUsable ==
  (last.op \in NumberOps) =>
    /\ last.outcome # "RangeError"
    /\ (last.op = "convert" /\ last.outcome = "ok") =>
         monies[last.res[1]] = NewMoney(LastExactlyConverted, last.cur)

\* C29 on the built-in currencies: the same calls on USD and BTC alone.
C29_BuiltinsUsable ==
  ( /\ last.op \in NumberOps
    /\ last.cur # XPR
    /\ monies[1].currency # XPR ) =>
    C29_AcceptedCurrencyUsable

\* C29, the case: fromNumber(XPR, 0), on a record defineCurrency has
\* accepted, failed with the RangeError of the division by 0n.
C29_DivisionByZero ==
  /\ ~defineCurrencyThrows("XPR", NumOfInt(INTERNAL_PRECISION + 1))
  /\ records[XPR].decimalPlaces = INTERNAL_PRECISION + 1
  /\ last.op = "fromNumber" /\ last.cur = XPR /\ last.num = NumOfInt(0)
  /\ last.outcome = "RangeError"

\* C29, the silent zero: convert of 2^53 - 1 minor units of XPR to BTC at the
\* rate 1, worth 900 satoshi, returned 0 satoshi.
C29_SilentZero ==
  /\ last.op = "convert" /\ last.cur = BTC /\ last.num = NumOfInt(1)
  /\ last.mode = "floor"
  /\ monies[1] = NewMoney(MAX_SAFE_INTEGER, XPR)
  /\ LastExactlyConverted = BigOf(900)
  /\ last.outcome = "ok"
  /\ monies[last.res[1]] = NewMoney(BigZero, BTC)

----------------------------------------------------------------------------
(* SpecTwoRoundings: roundTo(m, 10^-j, mode), then convert(m, t, 1, mode)   *)
(* into a currency t with j decimal places, on the same Money.              *)

\* the built-in records and defineCurrency("X7", 7)
TwoRoundingsRecords == BuiltinRecords \o <<defineCurrency("X7", NumOfInt(7))>>

X7 == Len(BuiltinRecords) + 1

\* an increment 10^-j and a currency with j decimal places
IncrementTargets ==
  {<<NumOfInt(1), JPY>>, <<N_0_01, USD>>, <<N_0_001, USDH>>, <<N_1em7, X7>>,
   <<N_1em8, BTC>>}

TwoRoundingsMinors ==
  {NumOfInt(k) : k \in (-MaxAmount)..MaxAmount}
  \cup {NumOfInt(5), NumOfInt(-5), NumOfInt(15), NumOfInt(-15), NumOfInt(50),
        NumOfInt(-50), NumOfInt(149), NumOfInt(-151), NumOfInt(500),
        NumOfInt(-1500), N_MAX_SAFE_INTEGER, N_neg_MAX_SAFE_INTEGER}

InitTwoRoundings ==
  /\ records = TwoRoundingsRecords
  /\ \E c \in {USD, USDH, BTC}, n \in TwoRoundingsMinors :
       monies = fromMinor(c, n).out
  /\ last = NoCall

NextTwoRoundings ==
  \/ \E p \in IncrementTargets, mode \in ModeOptions :
       /\ Fresh
       /\ records[p[2]].decimalPlaces <= records[monies[1].currency].decimalPlaces
       /\ RoundTo(1, p[1], mode)
  \/ \E p \in IncrementTargets :
       /\ last.op = "roundTo" /\ last.num = p[1]
       /\ Convert(1, p[2], NumOfInt(1), last.mode)

SpecTwoRoundings == InitTwoRoundings /\ [][NextTwoRoundings]_vars

\* the minor amount the last convert returned, in minor units of the source
ConvertedBack(ms, l) ==
  BigMul(ms[l.res[1]].minor,
         BigPow10(records[ms[1].currency].decimalPlaces - records[l.cur].decimalPlaces))

\* C30: for a Money m in a currency with dp decimal places, j <= dp and a
\* mode, convert(m, t, 1, mode) into a currency t with j decimal places
\* returns, and roundTo(m, 10^-j, mode) returns the Money of the currency of m
\* whose minor amount is 10^(dp - j) times the minor amount of that convert,
\* when this product is within the safe range, and fails with ResultTooLarge
\* when it is not.
C30_SamePolicies ==
  [][ (last.op = "roundTo" /\ last'.op = "convert") =>
        /\ last'.outcome = "ok"
        /\ IF InEnvelope(ConvertedBack(monies', last'))
           THEN /\ last.outcome = "ok"
                /\ monies[last.res[1]]
                     = NewMoney(ConvertedBack(monies', last'), monies[1].currency)
           ELSE last.outcome = "ResultTooLarge" ]_vars

\* C30 for the increments that toString() writes without an exponent, and
\* for 1e-8: there the two roundings agree, for either sign and at the
\* midpoints.
C30_PlainIncrementsAgree ==
  [][ (last.op = "roundTo" /\ last'.op = "convert" /\ last.num # N_1em7) =>
        /\ last'.outcome = "ok"
        /\ IF InEnvelope(ConvertedBack(monies', last'))
           THEN /\ last.outcome = "ok"
                /\ monies[last.res[1]]
                     = NewMoney(ConvertedBack(monies', last'), monies[1].currency)
           ELSE last.outcome = "ResultTooLarge" ]_vars

\* C30, the case: roundTo of 15 satoshi to 1e-7 BTC returned nothing, and
\* convert of the same Money into X7 at the rate 1 returned 2, worth 20
\* satoshi.
C30_SevenPlacesRejected ==
  /\ monies[1] = NewMoney(BigOf(15), BTC)
  /\ last.op = "convert" /\ last.cur = X7 /\ last.mode = "round"
  /\ last.outcome = "ok"
  /\ Len(monies) = 2 /\ last.res = <<2>>
  /\ monies[2] = NewMoney(BigOf(2), X7)

\* C30, an agreeing midpoint: under the default mode roundTo of -15 mills of
\* USDH to 0.01 returned -10 mills, and convert of the same Money into USD at
\* the rate 1 returned -1 cent.
C30_MidpointAgreed ==
  /\ monies[1] = NewMoney(BigOf(-15), USDH)
  /\ last.op = "convert" /\ last.cur = USD /\ last.mode = "undefined"
  /\ last.outcome = "ok"
  /\ Len(monies) = 3
  /\ monies[2] = NewMoney(BigOf(-10), USDH)
  /\ monies[3] = NewMoney(BigOf(-1), USD)

====
